---- MODULE Spec2Model ----
(***************************************************************************)
(* A model of ManifestJSONParser (src/src/parsers/manifestjson.js): the    *)
(* validation pass run by the constructor (_validate), the policy analysis *)
(* (validateCspPolicyString) and the asynchronous asset checks             *)
(* (validateIcons, validateStaticThemeImages).                             *)
(***************************************************************************)
EXTENDS Integers, Sequences, FiniteSets, TLC

(* ------------------------------ bounds --------------------------------- *)
\* most directives in one policy string
MaxDirectives == 2
\* most tokens in one directive
MaxTokens == 2
\* most raw issues the schema validator reports for one manifest
MaxIssues == 2
\* most entries of the icons map
MaxIcons == 2
\* most paths under theme.images
MaxThemeImages == 1
\* most entries of the dictionaries map
MaxDictionaries == 2
\* most entries of the permissions array
MaxPermissions == 2
\* most scripts of one background declaration
MaxScripts == 2

(* ------------------------------ helpers -------------------------------- *)
Range(s) == {s[i] : i \in 1..Len(s)}

SeqsUpTo(S, n) == UNION {[1..k -> S] : k \in 0..n}

\* a diagnostic as the collector keeps it: severity, code and what it names
Diag(sev, code, target) == [sev |-> sev, code |-> code, target |-> target]

CountOf(c, P(_)) == Cardinality({i \in 1..Len(c) : P(c[i])})

(* ------------------------- content security policy --------------------- *)
\* the order in which validateCspPolicyString visits the directives
candidates == <<"default-src", "script-src", "script-src-elem",
                "script-src-attr", "worker-src">>

\* directive names as a manifest may spell them
DirectiveNames == {"default-src", "script-src", "Script-Src", "worker-src",
                   "img-src"}

ToLowerCase(name) == IF name = "Script-Src" THEN "script-src" ELSE name

\* source tokens of the policies the model draws
SafeTokens == {"'self'"}
CspTokens == SafeTokens \cup {"*", "'unsafe-eval'"}

\* CSP_KEYWORD_RE.test(value)
isSecureCspValue(value) == value \in SafeTokens

\* parseCspPolicy: the directive -> token list map of a policy, which is
\* here a sequence of [name, values] in the order written
parseCspPolicy(policy) ==
  [n \in {ToLowerCase(policy[i].name) : i \in 1..Len(policy)} |->
     LET i == CHOOSE j \in 1..Len(policy) : ToLowerCase(policy[j].name) = n
     IN  policy[i].values]

every(values, P(_)) == \A i \in 1..Len(values) : P(values[i])

\* a scan that tests for an insecure value before it tests for 'unsafe-eval'
CspScanValueInsecureFirst(st, candidate, value) ==
  IF ~isSecureCspValue(value)
    THEN [st EXCEPT !.warnInsecureCsp = TRUE,
                    !.insecureSrcDirective =
                       IF candidate = "default-src" THEN TRUE ELSE @]
  ELSE IF value = "'unsafe-eval'"
    THEN [st EXCEPT !.warnInsecureEval = TRUE]
  ELSE st

\* the state of the scan: the three flags of validateCspPolicyString
CspScanValue(st, candidate, value) ==
  IF value = "'unsafe-eval'"
    THEN [st EXCEPT !.warnInsecureEval = TRUE]
  ELSE IF ~isSecureCspValue(value)
    THEN [st EXCEPT !.warnInsecureCsp = TRUE,
                    !.insecureSrcDirective =
                       IF candidate = "default-src" THEN TRUE ELSE @]
  ELSE st

RECURSIVE CspScanValues(_, _, _, _)
CspScanValues(st, candidate, values, k) ==
  IF k > Len(values) THEN st
  ELSE CspScanValues(CspScanValue(st, candidate, values[k]),
                     candidate, values, k + 1)

\* the loop body without lines 1074-1082: script-src never overrides
CspCandidateNoOverride(st, directives, candidate) ==
  IF candidate \notin DOMAIN directives THEN st
  ELSE CspScanValues(st, candidate, directives[candidate], 1)

\* the loop body with an override test that lets 'unsafe-eval' pass
CspCandidateEvalTolerant(st, directives, candidate) ==
  IF candidate \notin DOMAIN directives THEN st
  ELSE LET values == directives[candidate] IN
    IF /\ st.insecureSrcDirective
       /\ candidate = "script-src"
       /\ every(values, LAMBDA v : isSecureCspValue(v) \/ v = "'unsafe-eval'")
      THEN [st EXCEPT !.insecureSrcDirective = FALSE,
                      !.warnInsecureCsp = FALSE,
                      !.warnInsecureEval =
                         \E k \in 1..Len(values) : values[k] = "'unsafe-eval'"]
      ELSE CspScanValues(st, candidate, values, 1)

CspCandidate(st, directives, candidate) ==
  IF candidate \notin DOMAIN directives THEN st
  ELSE LET values == directives[candidate] IN
    IF /\ st.insecureSrcDirective
       /\ candidate = "script-src"
       /\ every(values, isSecureCspValue)
      THEN [st EXCEPT !.insecureSrcDirective = FALSE,
                      !.warnInsecureCsp = FALSE]
      ELSE CspScanValues(st, candidate, values, 1)

RECURSIVE CspLoop(_, _, _)
CspLoop(st, directives, i) ==
  IF i > Len(candidates) THEN st
  ELSE CspLoop(CspCandidate(st, directives, candidates[i]), directives, i + 1)

CspFlags(policy) ==
  LET directives == parseCspPolicy(policy)
      missing == "default-src" \notin DOMAIN directives
  IN  CspLoop([insecureSrcDirective |-> missing,
               warnInsecureCsp |-> missing,
               warnInsecureEval |-> FALSE], directives, 1)

\* the warnings validateCspPolicyString adds for one policy string
validateCspPolicyString(policy, manifestPropName) ==
  LET st == CspFlags(policy) IN
    (IF st.warnInsecureEval
       THEN <<Diag("warning", "MANIFEST_CSP_UNSAFE_EVAL", manifestPropName)>>
       ELSE <<>>)
    \o
    (IF st.warnInsecureCsp
       THEN <<Diag("warning", "MANIFEST_CSP", manifestPropName)>>
       ELSE <<>>)
(* ------------------------------ paths ---------------------------------- *)
\* normalizePath: the path as the package lists it
normalizePath(p) ==
  CASE p = "./a.png"      -> "a.png"
    [] p = "x/../wide.png" -> "wide.png"
    [] OTHER               -> p

\* path.extname(p).substring(1)
extname(p) ==
  CASE p \in {"a.png", "./a.png", "wide.png", "x/../wide.png", "bad.png",
              "cut.png", "big.png", "fake.png", "anim.png", "gone.png"} -> "png"
    [] p = "D.PNG"    -> "PNG"
    [] p = "wide.svg" -> "svg"
    [] p = "pic.webp" -> "webp"
    [] p = "note.txt" -> "txt"
    [] OTHER          -> ""

toLowerCase(s) == IF s = "PNG" THEN "png" ELSE s

getNormalizedExtension(p) == toLowerCase(extname(p))

IMAGE_FILE_EXTENSIONS == {"jpg", "jpeg", "webp", "gif", "png", "svg"}

STATIC_THEME_IMAGE_MIMES ==
  {"image/jpeg", "image/gif", "image/png", "image/webp", "image/svg+xml"}

\* FILE_EXTENSIONS_TO_MIME[type]; "undefined" for a type it does not list
FILE_EXTENSIONS_TO_MIME(type) ==
  CASE type = "svg"  -> "image/svg+xml"
    [] type = "gif"  -> "image/gif"
    [] type = "jpg"  -> "image/jpeg"
    [] type = "jpeg" -> "image/jpeg"
    [] type = "png"  -> "image/png"
    [] type = "webp" -> "image/webp"
    [] OTHER         -> "undefined"

(* --------------------------- package content --------------------------- *)
\* What the stream of a packaged file holds: the number of chunks it
\* yields, the number of chunks after which image-size can decode the
\* header (0: never), the chunk at which reading the stream throws (0:
\* never), and what the decoder reports.
Image(chunks, okAt, throwsAt, w, h, type) ==
  [chunks |-> chunks, okAt |-> okAt, throwsAt |-> throwsAt,
   width |-> w, height |-> h, type |-> type]

Content(p) ==
  CASE p = "a.png"    -> Image(1, 1, 0, 16, 16, "png")
    [] p = "D.PNG"    -> Image(1, 1, 0, 16, 16, "png")
    [] p = "big.png"  -> Image(2, 1, 0, 48, 48, "png")
    [] p = "wide.png" -> Image(2, 2, 0, 32, 16, "png")
    [] p = "wide.svg" -> Image(1, 1, 0, 32, 16, "svg")
    [] p = "bad.png"  -> Image(2, 0, 0, 0, 0, "")
    [] p = "cut.png"  -> Image(2, 0, 1, 0, 0, "")
    [] p = "fake.png" -> Image(1, 1, 0, 16, 16, "jpg")
    [] p = "anim.png" -> Image(1, 1, 0, 16, 16, "webp")
    [] p = "pic.webp" -> Image(1, 1, 0, 16, 16, "webp")
    [] OTHER          -> Image(0, 0, 0, 0, 0, "")

ImageFiles == {"a.png", "D.PNG", "big.png", "wide.png", "wide.svg", "bad.png",
               "cut.png", "fake.png", "anim.png", "pic.webp", "note.txt"}
(* ------------------------------ state ---------------------------------- *)
VARIABLES
  parsedJSON,    \* the manifest document
  io,            \* io.files: the paths of the package
  options,       \* schemaValidatorOptions, selfHosted, isAlreadySigned
  schemaErrors,  \* validate.errors: the raw issues of the schema validator
  flags,         \* isStaticTheme, isLanguagePack, isDictionary, isSitePermission
  collector,     \* the diagnostics added so far, in order
  isValid,       \* this.isValid
  pc,            \* the rule _validate runs next, then "constructed"
  steps,         \* the rules that have run, in order
  batch,         \* validateIcons / validateStaticThemeImages: idle, running, resolved
  tasks,         \* the decode-and-check tasks started so far
  opened,        \* the paths given to io.getFileAsStream, in order
  validated      \* the schema validators _validate has invoked, in order

vars == <<parsedJSON, io, options, schemaErrors, flags, collector, isValid,
          pc, steps, batch, tasks, opened, validated>>

inputs == <<io, options, schemaErrors, flags>>

addError(c, code, target) == Append(c, Diag("error", code, target))
addWarning(c, code, target) == Append(c, Diag("warning", code, target))
addNotice(c, code, target) == Append(c, Diag("notice", code, target))

(* ----------------------------- manifest -------------------------------- *)
NoGecko == [present |-> FALSE, id |-> "", update_url |-> FALSE,
            strict_min_version |-> <<>>, strict_max_version |-> FALSE]

Gecko(id, update_url, min, max) ==
  [present |-> TRUE, id |-> id, update_url |-> update_url,
   strict_min_version |-> min, strict_max_version |-> max]

\* the value of applications or browser_specific_settings
NoSettings == [present |-> FALSE, key |-> "", gecko |-> NoGecko]
Settings(key, gecko) == [present |-> TRUE, key |-> key, gecko |-> gecko]

NoAction == [present |-> FALSE, default_icon |-> [kind |-> "none", entries |-> <<>>],
             theme_icons |-> <<>>]

NoBackground == [present |-> FALSE, scripts |-> <<>>, page |-> "",
                 service_worker |-> ""]

\* a manifest that declares only what every manifest declares
BaseManifest ==
  [manifest_version |-> 2,
   version |-> "1.0",
   theme |-> [present |-> FALSE, images |-> <<>>],
   langpack_id |-> FALSE,
   dictionaries |-> [present |-> FALSE, entries |-> <<>>],
   site_permissions |-> FALSE,
   applications |-> NoSettings,
   browser_specific_settings |-> NoSettings,
   content_security_policy |-> [kind |-> "absent", entries |-> <<>>],
   update_url |-> FALSE,
   granted_host_permissions |-> FALSE,
   background |-> NoBackground,
   content_scripts |-> <<>>,
   default_locale |-> "",
   developer |-> [present |-> FALSE, name |-> "", url |-> ""],
   author |-> "",
   homepage_url |-> "",
   permissions |-> <<>>,
   hidden |-> FALSE,
   action |-> FALSE,
   icons |-> <<>>,
   browser_action |-> NoAction,
   page_action |-> NoAction,
   sidebar_action |-> NoAction]

BaseOptions ==
  [privileged |-> FALSE, enableBackgroundServiceWorker |-> FALSE,
   selfHosted |-> FALSE, isAlreadySigned |-> FALSE]

\* the addon type detection with each key tested on its own
KindFlagsNoElse(m) ==
  [isStaticTheme    |-> m.theme.present,
   isLanguagePack   |-> m.langpack_id,
   isDictionary     |-> m.dictionaries.present,
   isSitePermission |-> m.site_permissions]

\* the constructor's addon type detection
KindFlags(m) ==
  [isStaticTheme    |-> m.theme.present,
   isLanguagePack   |-> ~m.theme.present /\ m.langpack_id,
   isDictionary     |-> ~m.theme.present /\ ~m.langpack_id /\ m.dictionaries.present,
   isSitePermission |-> /\ ~m.theme.present /\ ~m.langpack_id
                        /\ ~m.dictionaries.present /\ m.site_permissions]

isPrivilegedAddon == options.privileged
(* --------------------------- schema issues ----------------------------- *)
\* A raw issue of the schema validator: its keyword, its instancePath, the
\* type of its data ("undefined", "string", "object") and its
\* params.privilegedPermissions ("undefined", "empty", "some").
Issue(keyword, instancePath, data, priv) ==
  [keyword |-> keyword, instancePath |-> instancePath, data |-> data,
   privilegedPermissions |-> priv]

InstancePaths == {"/permissions", "/permissions/0", "/optional_permissions/0",
                  "/host_permissions", "/host_permissions/0", "/install_origins/0",
                  "/applications", "/background", "/name",
                  "/theme/images/headerURL", "/old_key", "/older_key"}

\* instancePath.startsWith(prefix)
startsWith(instancePath, prefix) ==
  CASE prefix = "/permissions" ->
         instancePath \in {"/permissions", "/permissions/0"}
    [] prefix = "/optional_permissions" ->
         instancePath = "/optional_permissions/0"
    [] prefix = "/host_permissions" ->
         instancePath \in {"/host_permissions", "/host_permissions/0"}
    [] OTHER -> FALSE

\* match[1] of PERMS_DATAPATH_REGEX or INSTALL_ORIGINS_DATAPATH_REGEX,
\* upper-cased; "" when neither matches
PermsMatch(instancePath) ==
  CASE instancePath = "/permissions/0"          -> "PERMISSIONS"
    [] instancePath = "/optional_permissions/0" -> "OPTIONAL_PERMISSIONS"
    [] instancePath = "/host_permissions/0"     -> "HOST_PERMISSIONS"
    [] OTHER                                    -> ""

InstallOriginsMatch(instancePath) ==
  IF instancePath = "/install_origins/0" THEN "INSTALL_ORIGINS" ELSE ""

\* DEPRECATED_MANIFEST_PROPERTIES: the template registered for a path
\* ("" for a path that is not registered). The table is given one entry
\* for each case of lines 266-275: a template with its own description, a
\* template without one, and a name under which messages holds null.
DEPRECATED_MANIFEST_PROPERTIES(instancePath) ==
  CASE instancePath = "/theme/images/headerURL" -> "MANIFEST_THEME_LWT_ALIAS"
    [] instancePath = "/old_key"                -> "MANIFEST_OLD_KEY"
    [] instancePath = "/older_key"              -> "MANIFEST_OLDER_KEY"
    [] OTHER                                    -> ""

\* messages[name] for the names of the table: the code of the template and
\* whether it has a description; code "" is a null template
MessageTemplate(name) ==
  CASE name = "MANIFEST_THEME_LWT_ALIAS" -> [code |-> name, description |-> TRUE]
    [] name = "MANIFEST_OLD_KEY"         -> [code |-> name, description |-> FALSE]
    [] OTHER                             -> [code |-> "", description |-> FALSE]

\* lines 260-280: the template of a deprecated issue; the generic template
\* stands in for a null one and has a description of its own
DeprecatedTemplate(instancePath) ==
  LET baseObject == MessageTemplate(DEPRECATED_MANIFEST_PROPERTIES(instancePath))
  IN  IF DEPRECATED_MANIFEST_PROPERTIES(instancePath) = ""
        THEN [code |-> "JSON_INVALID", description |-> TRUE]
      ELSE IF baseObject.code = ""
        THEN [code |-> "MANIFEST_FIELD_DEPRECATED", description |-> TRUE]
      ELSE baseObject

\* lines 253-256 and 272-280: where the message and the description of the
\* diagnostic of a deprecated issue come from, the chosen template or the
\* raw message of the schema validator
DeprecatedText(instancePath) ==
  IF DEPRECATED_MANIFEST_PROPERTIES(instancePath) = ""
    THEN [message |-> "raw", description |-> "template"]
    ELSE [message |-> "template",
          description |-> IF DeprecatedTemplate(instancePath).description
                            THEN "template" ELSE "raw"]

\* errorLookup with the branch of privileged permissions applied to the
\* bare privileged keyword as well
errorLookupBaseThreeWay(error, privileged) ==
  IF error.keyword = "required" THEN "MANIFEST_FIELD_REQUIRED"
  ELSE IF error.keyword = "deprecated" THEN
    DeprecatedTemplate(error.instancePath).code
  ELSE IF error.keyword \in {"min_manifest_version", "max_manifest_version"} THEN
    (IF PermsMatch(error.instancePath) # "" THEN "MANIFEST_PERMISSION_UNSUPPORTED"
     ELSE IF error.instancePath = "/applications" THEN "APPLICATIONS_INVALID"
     ELSE "MANIFEST_FIELD_UNSUPPORTED")
  ELSE IF /\ startsWith(error.instancePath, "/permissions")
          /\ error.keyword = "validatePrivilegedPermissions"
          /\ error.privilegedPermissions # "undefined" THEN
    (IF privileged
       THEN (IF error.privilegedPermissions = "some"
               THEN "MOZILLA_ADDONS_PERMISSION_REQUIRED"
               ELSE "PRIVILEGED_FEATURES_REQUIRED")
       ELSE "MANIFEST_PERMISSIONS_PRIVILEGED")
  ELSE IF /\ startsWith(error.instancePath, "/permissions")
          /\ error.data \notin {"undefined", "string"} THEN "MANIFEST_BAD_PERMISSION"
  ELSE IF /\ startsWith(error.instancePath, "/optional_permissions")
          /\ error.data \notin {"undefined", "string"}
    THEN "MANIFEST_BAD_OPTIONAL_PERMISSION"
  ELSE IF /\ startsWith(error.instancePath, "/host_permissions")
          /\ error.data \notin {"undefined", "string"}
    THEN "MANIFEST_BAD_HOST_PERMISSION"
  ELSE IF error.keyword = "type" THEN "MANIFEST_FIELD_INVALID"
  ELSE IF error.keyword = "privileged" THEN
    (IF privileged
       THEN (IF error.privilegedPermissions = "some"
               THEN "MOZILLA_ADDONS_PERMISSION_REQUIRED"
               ELSE "PRIVILEGED_FEATURES_REQUIRED")
       ELSE "MANIFEST_FIELD_PRIVILEGED")
  ELSE "JSON_INVALID"

\* the template errorLookup chooses before the array refinement
errorLookupBase(error, privileged) ==
  IF error.keyword = "required" THEN "MANIFEST_FIELD_REQUIRED"
  ELSE IF error.keyword = "deprecated" THEN
    DeprecatedTemplate(error.instancePath).code
  ELSE IF error.keyword \in {"min_manifest_version", "max_manifest_version"} THEN
    (IF PermsMatch(error.instancePath) # "" THEN "MANIFEST_PERMISSION_UNSUPPORTED"
     ELSE IF error.instancePath = "/applications" THEN "APPLICATIONS_INVALID"
     ELSE "MANIFEST_FIELD_UNSUPPORTED")
  ELSE IF /\ startsWith(error.instancePath, "/permissions")
          /\ error.keyword = "validatePrivilegedPermissions"
          /\ error.privilegedPermissions # "undefined" THEN
    (IF privileged
       THEN (IF error.privilegedPermissions = "some"
               THEN "MOZILLA_ADDONS_PERMISSION_REQUIRED"
               ELSE "PRIVILEGED_FEATURES_REQUIRED")
       ELSE "MANIFEST_PERMISSIONS_PRIVILEGED")
  ELSE IF /\ startsWith(error.instancePath, "/permissions")
          /\ error.data \notin {"undefined", "string"} THEN "MANIFEST_BAD_PERMISSION"
  ELSE IF /\ startsWith(error.instancePath, "/optional_permissions")
          /\ error.data \notin {"undefined", "string"}
    THEN "MANIFEST_BAD_OPTIONAL_PERMISSION"
  ELSE IF /\ startsWith(error.instancePath, "/host_permissions")
          /\ error.data \notin {"undefined", "string"}
    THEN "MANIFEST_BAD_HOST_PERMISSION"
  ELSE IF error.keyword = "type" THEN "MANIFEST_FIELD_INVALID"
  ELSE IF error.keyword = "privileged" THEN
    (IF privileged THEN "MOZILLA_ADDONS_PERMISSION_REQUIRED"
                   ELSE "MANIFEST_FIELD_PRIVILEGED")
  ELSE "JSON_INVALID"

\* errorLookup with the manifest_version 2 filter applied to the template
\* chosen first, before the refinement for array paths
errorLookupFilterFirst(error, privileged, manifest_version) ==
  LET base == errorLookupBase(error, privileged)
      match == IF PermsMatch(error.instancePath) # ""
                 THEN PermsMatch(error.instancePath)
                 ELSE InstallOriginsMatch(error.instancePath)
      ignoredOnMV2 == {"MANIFEST_HOST_PERMISSIONS", "MANIFEST_BAD_HOST_PERMISSION"}
  IN  IF manifest_version = 2 /\ base \in ignoredOnMV2 THEN ""
      ELSE IF /\ match # ""
              /\ base \notin {"MANIFEST_BAD_PERMISSION",
                              "MANIFEST_BAD_OPTIONAL_PERMISSION",
                              "MANIFEST_BAD_HOST_PERMISSION",
                              "MANIFEST_PERMISSION_UNSUPPORTED"}
        THEN "MANIFEST_" \o match
      ELSE base

\* the code of the diagnostic errorLookup returns; "" when it returns null
errorLookup(error, privileged, manifest_version) ==
  LET base == errorLookupBase(error, privileged)
      match == IF PermsMatch(error.instancePath) # ""
                 THEN PermsMatch(error.instancePath)
                 ELSE InstallOriginsMatch(error.instancePath)
      code == IF /\ match # ""
                 /\ base \notin {"MANIFEST_BAD_PERMISSION",
                                 "MANIFEST_BAD_OPTIONAL_PERMISSION",
                                 "MANIFEST_BAD_HOST_PERMISSION",
                                 "MANIFEST_PERMISSION_UNSUPPORTED"}
                THEN "MANIFEST_" \o match
                ELSE base
      ignoredOnMV2 == {"MANIFEST_HOST_PERMISSIONS", "MANIFEST_BAD_HOST_PERMISSION"}
  IN  IF manifest_version = 2 /\ code \in ignoredOnMV2 THEN "" ELSE code

\* the codes _validate reports as warnings
SchemaWarnings(isAlreadySigned) ==
  {"MANIFEST_PERMISSIONS", "MANIFEST_OPTIONAL_PERMISSIONS",
   "MANIFEST_HOST_PERMISSIONS", "MANIFEST_PERMISSION_UNSUPPORTED",
   "MANIFEST_FIELD_UNSUPPORTED"}
  \cup (IF isAlreadySigned
          THEN {"MANIFEST_PERMISSIONS_PRIVILEGED", "MANIFEST_FIELD_PRIVILEGED"}
          ELSE {})

\* validate.errors.forEach: the collector and isValid after the issues
\* errors[k..] have been looked up
RECURSIVE SchemaForEach(_, _, _, _)
SchemaForEach(errors, k, c, valid) ==
  IF k > Len(errors) THEN [collector |-> c, isValid |-> valid]
  ELSE LET code == errorLookup(errors[k], isPrivilegedAddon,
                               parsedJSON.manifest_version)
           target == errors[k].instancePath
       IN IF code = "" THEN SchemaForEach(errors, k + 1, c, valid)
          ELSE SchemaForEach(errors, k + 1,
                 IF code \in SchemaWarnings(options.isAlreadySigned)
                   THEN addWarning(c, code, target)
                   ELSE addError(c, code, target),
                 IF code = "MANIFEST_BAD_PERMISSION" THEN FALSE ELSE valid)

\* validate(parsedJSON, options): whether the schema accepts the document
validate == schemaErrors = <<>>

\* _validate, lines 428-438: the schema validator of the addon's kind
Validator ==
  IF flags.isStaticTheme THEN "validateStaticTheme"
  ELSE IF flags.isLanguagePack THEN "validateLangPack"
  ELSE IF flags.isDictionary THEN "validateDictionary"
  ELSE IF flags.isSitePermission THEN "validateSitePermission"
  ELSE "validateAddon"

\* _validate, lines 440-469: schema validation and classification
SchemaResult ==
  IF validate
    THEN [collector |-> collector, isValid |-> TRUE]
    ELSE SchemaForEach(schemaErrors, 1, collector, FALSE)

Advance(from, to) ==
  /\ pc = from
  /\ pc' = to
  /\ steps' = Append(steps, from)

ValidateSchema ==
  /\ Advance("schema", "legacy")
  /\ collector' = SchemaResult.collector
  /\ isValid' = SchemaResult.isValid
  /\ validated' = Append(validated, Validator)
  /\ UNCHANGED <<parsedJSON, inputs, batch, tasks, opened>>
(* ------------------------- structural rules ---------------------------- *)
Result(c, valid) == [collector |-> c, isValid |-> valid]

\* validateFileExistsInPackage without its assignment to isValid
validateFileExistsKeepsValid(r, filePath, target, code) ==
  IF normalizePath(filePath) \notin io.files
    THEN Result(addError(r.collector, code, target), r.isValid)
    ELSE r

\* validateFileExistsInPackage: one error, and isValid false, when the
\* normalized path is no key of io.files
validateFileExistsInPackage(r, filePath, target, code) ==
  LET _path == normalizePath(filePath) IN
    IF _path \notin io.files
      THEN Result(addError(r.collector, code, target), FALSE)
      ELSE r

fileExists(filePath) == normalizePath(filePath) \in io.files

RECURSIVE FilesExist(_, _, _, _)
FilesExist(r, paths, k, code) ==
  IF k > Len(paths) THEN r
  ELSE FilesExist(validateFileExistsInPackage(r, paths[k],
                                              normalizePath(paths[k]), code),
                  paths, k + 1, code)

\* _validate, lines 471-480: the warnings about the legacy applications key
LegacyShape(r) ==
  IF parsedJSON.manifest_version < 3
    THEN IF parsedJSON.browser_specific_settings.present
            /\ parsedJSON.applications.present
           THEN Result(addWarning(r.collector, "IGNORED_APPLICATIONS_PROPERTY",
                                  "/applications"), r.isValid)
         ELSE IF parsedJSON.applications.present
           THEN Result(addWarning(r.collector, "APPLICATIONS_DEPRECATED",
                                  "/applications"), r.isValid)
         ELSE r
    ELSE r

\* a copy that is made only when the manifest has no applications key
CopySettingsIfAbsent(m) ==
  IF /\ m.browser_specific_settings.present
     /\ m.browser_specific_settings.gecko.present
     /\ ~m.applications.present
    THEN [m EXCEPT !.applications = m.browser_specific_settings]
    ELSE m

\* _validate, lines 482-487: applications becomes browser_specific_settings
CopySettings(m) ==
  IF m.browser_specific_settings.present /\ m.browser_specific_settings.gecko.present
    THEN [m EXCEPT !.applications = m.browser_specific_settings]
    ELSE m

\* validateCspPolicy: one policy string, or one per key of a map
RECURSIVE CspEntries(_, _, _)
CspEntries(c, entries, k) ==
  IF k > Len(entries) THEN c
  ELSE CspEntries(c \o validateCspPolicyString(entries[k].policy, entries[k].key),
                  entries, k + 1)

validateCspPolicy(r, policy) ==
  IF policy.kind = "absent" THEN r
  ELSE Result(CspEntries(r.collector, policy.entries, 1), r.isValid)

\* _validate, lines 493-501
UnusedKeys(r) ==
  LET c1 == IF parsedJSON.update_url
              THEN addNotice(r.collector, "MANIFEST_UNUSED_UPDATE", "/update_url")
              ELSE r.collector
      c2 == IF parsedJSON.granted_host_permissions
              THEN addWarning(c1, "MANIFEST_FIELD_PRIVILEGEDONLY",
                              "granted_host_permissions")
              ELSE c1
  IN  Result(c2, r.isValid)

\* the background rule without the feature flag test of line 516
BackgroundNoFlag(r) ==
  LET bg == parsedJSON.background
      r1 == FilesExist(r, bg.scripts, 1, "MANIFEST_BACKGROUND_FILE_NOT_FOUND")
      r2 == IF bg.page # ""
              THEN validateFileExistsInPackage(r1, bg.page, normalizePath(bg.page),
                                               "MANIFEST_BACKGROUND_FILE_NOT_FOUND")
              ELSE r1
      r3 == IF bg.service_worker = "" THEN r2
            ELSE IF parsedJSON.manifest_version >= 3
              THEN validateFileExistsInPackage(r2, bg.service_worker,
                     normalizePath(bg.service_worker),
                     "MANIFEST_BACKGROUND_FILE_NOT_FOUND")
            ELSE r2
  IN  IF bg.present THEN r3 ELSE r

\* _validate, lines 503-531
Background(r) ==
  LET bg == parsedJSON.background
      r1 == FilesExist(r, bg.scripts, 1, "MANIFEST_BACKGROUND_FILE_NOT_FOUND")
      r2 == IF bg.page # ""
              THEN validateFileExistsInPackage(r1, bg.page, normalizePath(bg.page),
                                               "MANIFEST_BACKGROUND_FILE_NOT_FOUND")
              ELSE r1
      r3 == IF bg.service_worker = "" THEN r2
            ELSE IF ~options.enableBackgroundServiceWorker
              THEN Result(addError(r2.collector, "MANIFEST_FIELD_UNSUPPORTED",
                                   "/background"), FALSE)
            ELSE IF parsedJSON.manifest_version >= 3
              THEN validateFileExistsInPackage(r2, bg.service_worker,
                     normalizePath(bg.service_worker),
                     "MANIFEST_BACKGROUND_FILE_NOT_FOUND")
            ELSE r2
  IN  IF bg.present THEN r3 ELSE r

\* the number of entries of BLOCKED_CONTENT_SCRIPT_HOSTS a pattern includes
BlockedHosts(matchPattern) ==
  CASE matchPattern = "*://blocked.example/*" -> 1
    [] matchPattern = "*://both.blocked.example/*" -> 2
    [] OTHER -> 0

RECURSIVE Repeat(_, _, _, _)
Repeat(c, n, code, target) ==
  IF n = 0 THEN c ELSE Repeat(addError(c, code, target), n - 1, code, target)

\* validateContentScriptMatchPattern: one error per blocked host included
validateContentScriptMatchPattern(r, matchPattern) ==
  IF BlockedHosts(matchPattern) > 0
    THEN Result(Repeat(r.collector, BlockedHosts(matchPattern),
                       "MANIFEST_INVALID_CONTENT", matchPattern), FALSE)
    ELSE r

RECURSIVE MatchPatterns(_, _, _)
MatchPatterns(r, matches, k) ==
  IF k > Len(matches) THEN r
  ELSE MatchPatterns(validateContentScriptMatchPattern(r, matches[k]),
                     matches, k + 1)

\* _validate, lines 533-565
RECURSIVE ContentScripts(_, _, _)
ContentScripts(r, rules, k) ==
  IF k > Len(rules) THEN r
  ELSE LET r1 == MatchPatterns(r, rules[k].matches, 1)
           r2 == FilesExist(r1, rules[k].js, 1, "MANIFEST_CONTENT_SCRIPT_FILE_NOT_FOUND")
           r3 == FilesExist(r2, rules[k].css, 1, "MANIFEST_CONTENT_SCRIPT_FILE_NOT_FOUND")
       IN  ContentScripts(r3, rules, k + 1)

\* getAddonId: applications.gecko.id, "" for null
getAddonId(m) ==
  IF m.applications.present /\ m.applications.gecko.present
    THEN m.applications.gecko.id ELSE ""

\* filepath.replace(/\.dic$/, '.aff')
AffPath(filepath) == IF filepath = "fr.dic" THEN "fr.aff"
                     ELSE IF filepath = "de.dic" THEN "de.aff" ELSE filepath

RECURSIVE DictionaryFiles(_, _, _)
DictionaryFiles(r, entries, k) ==
  IF k > Len(entries) THEN r
  ELSE LET filepath == entries[k].path
           r1 == validateFileExistsInPackage(r, filepath, normalizePath(filepath),
                                             "MANIFEST_DICT_NOT_FOUND")
           r2 == validateFileExistsInPackage(r1, AffPath(filepath),
                                             normalizePath(AffPath(filepath)),
                                             "MANIFEST_DICT_NOT_FOUND")
       IN  DictionaryFiles(r2, entries, k + 1)

\* the dictionaries rule with one multiple-dictionaries error per entry
DictionariesPerEntry(r) ==
  LET d == parsedJSON.dictionaries
      r1 == IF getAddonId(parsedJSON) = ""
              THEN Result(addError(r.collector, "MANIFEST_DICT_MISSING_ID", ""), FALSE)
              ELSE r
      r2 == IF Len(d.entries) < 1
              THEN Result(addError(r1.collector, "MANIFEST_EMPTY_DICTS", ""), FALSE)
            ELSE IF Len(d.entries) > 1
              THEN Result(Repeat(r1.collector, Len(d.entries),
                                 "MANIFEST_MULTIPLE_DICTS", ""), FALSE)
            ELSE r1
  IN  IF d.present THEN DictionaryFiles(r2, d.entries, 1) ELSE r

\* _validate, lines 567-596
Dictionaries(r) ==
  LET d == parsedJSON.dictionaries
      r1 == IF getAddonId(parsedJSON) = ""
              THEN Result(addError(r.collector, "MANIFEST_DICT_MISSING_ID", ""), FALSE)
              ELSE r
      numberOfDictionaries == Len(d.entries)
      r2 == IF numberOfDictionaries < 1
              THEN Result(addError(r1.collector, "MANIFEST_EMPTY_DICTS", ""), FALSE)
            ELSE IF numberOfDictionaries > 1
              THEN Result(addError(r1.collector, "MANIFEST_MULTIPLE_DICTS", ""), FALSE)
            ELSE r1
  IN  IF d.present THEN DictionaryFiles(r2, d.entries, 1) ELSE r
\* _validate, lines 598-613
UpdateUrl(r) ==
  IF /\ ~options.selfHosted
     /\ parsedJSON.applications.present
     /\ parsedJSON.applications.gecko.present
     /\ parsedJSON.applications.gecko.update_url
    THEN IF isPrivilegedAddon
           THEN Result(addWarning(r.collector, "MANIFEST_UPDATE_URL", ""), r.isValid)
           ELSE Result(addError(r.collector, "MANIFEST_UPDATE_URL", ""), FALSE)
    ELSE r

\* _validate, lines 615-629
StrictMaxVersion(r) ==
  IF /\ ~flags.isLanguagePack
     /\ parsedJSON.applications.present
     /\ parsedJSON.applications.gecko.present
     /\ parsedJSON.applications.gecko.strict_max_version
    THEN IF flags.isDictionary
           THEN Result(addError(r.collector, "STRICT_MAX_VERSION", ""), FALSE)
           ELSE Result(addNotice(r.collector, "STRICT_MAX_VERSION", ""), r.isValid)
    ELSE r

\* firefoxStrictMinVersion: the major number of strict_min_version, 0 for null
firefoxStrictMinVersion(m) ==
  IF /\ m.applications.present /\ m.applications.gecko.present
     /\ m.applications.gecko.strict_min_version # <<>>
    THEN m.applications.gecko.strict_min_version[1] ELSE 0

\* bcd.webextensions.manifest: for a top-level key, the Firefox and Firefox
\* for Android versions that added it (0: no data) and its subkeys
Compat(firefox, android, sub) ==
  [firefox |-> firefox, firefox_android |-> android, sub |-> sub]

CompatKeys == <<"author", "background", "developer", "homepage_url", "permissions">>

bcd(key) ==
  CASE key = "author"       -> Compat(52, 52, <<>>)
    [] key = "background"   -> Compat(48, 48, <<"service_worker">>)
    [] key = "developer"    -> Compat(52, 0, <<>>)
    [] key = "homepage_url" -> Compat(48, 68, <<>>)
    [] key = "permissions"  -> Compat(48, 48, <<"proxy">>)
    [] key = "background.service_worker" -> Compat(121, 121, <<>>)
    [] key = "permissions:proxy"         -> Compat(60, 113, <<>>)
    [] OTHER                -> Compat(0, 0, <<>>)

\* Object.prototype.hasOwnProperty.call(this.parsedJSON, key)
hasManifestKey(m, key) ==
  CASE key = "author"       -> m.author # ""
    [] key = "background"   -> m.background.present
    [] key = "developer"    -> m.developer.present
    [] key = "homepage_url" -> m.homepage_url # ""
    [] key = "permissions"  -> m.permissions # <<>>
    [] OTHER                -> FALSE

basicCompatVersionComparison(versionAdded, minVersion) ==
  versionAdded # 0 /\ versionAdded > minVersion

\* checkKeySupport
checkKeySupport(c, support, minVersion, key, isPermission) ==
  LET c1 == IF basicCompatVersionComparison(support.firefox, minVersion)
              THEN IF ~isPermission
                     THEN addWarning(c, "KEY_FIREFOX_UNSUPPORTED_BY_MIN_VERSION", key)
                     ELSE addNotice(c, "PERMISSION_FIREFOX_UNSUPPORTED_BY_MIN_VERSION", key)
              ELSE c
  IN  IF basicCompatVersionComparison(support.firefox_android, minVersion)
        THEN IF ~isPermission
               THEN addWarning(c1, "KEY_FIREFOX_ANDROID_UNSUPPORTED_BY_MIN_VERSION", key)
               ELSE addNotice(c1, "PERMISSION_FIREFOX_ANDROID_UNSUPPORTED_BY_MIN_VERSION", key)
        ELSE c1

\* whether the manifest value of key has the subkey as an own property
hasSubkey(m, key, subkey) ==
  key = "background" /\ subkey = "service_worker" /\ m.background.service_worker # ""

\* manifestKeyValue.includes(subkey), for the permissions array
includesPermission(m, subkey) ==
  \E i \in 1..Len(m.permissions) : m.permissions[i] = subkey

\* checkCompatInfo over the subkeys of one top-level key
RECURSIVE checkCompatSub(_, _, _, _, _)
checkCompatSub(c, m, minVersion, key, k) ==
  LET sub == bcd(key).sub IN
  IF k > Len(sub) THEN c
  ELSE LET subkey == sub[k]
           c1 == IF hasSubkey(m, key, subkey)
                   THEN checkKeySupport(c, bcd(key \o "." \o subkey), minVersion,
                                        key \o "." \o subkey, FALSE)
                 ELSE IF key = "permissions" /\ includesPermission(m, subkey)
                   THEN checkKeySupport(c, bcd(key \o ":" \o subkey), minVersion,
                                        key \o ":" \o subkey, TRUE)
                 ELSE c
       IN  checkCompatSub(c1, m, minVersion, key, k + 1)

checkCompatInfo(c, m, minVersion, key) ==
  checkCompatSub(checkKeySupport(c, bcd(key), minVersion, key, FALSE),
                 m, minVersion, key, 1)

RECURSIVE CompatWalk(_, _, _, _)
CompatWalk(c, m, minVersion, k) ==
  IF k > Len(CompatKeys) THEN c
  ELSE CompatWalk(IF hasManifestKey(m, CompatKeys[k])
                    THEN checkCompatInfo(c, m, minVersion, CompatKeys[k])
                    ELSE c,
                  m, minVersion, k + 1)

\* _validate, lines 631-644
Compatibility(r) ==
  LET minVersion == firefoxStrictMinVersion(parsedJSON) IN
    IF ~flags.isLanguagePack /\ ~flags.isDictionary /\ minVersion # 0
      THEN Result(CompatWalk(r.collector, parsedJSON, minVersion, 1), r.isValid)
      ELSE r

isValidVersionString(version) == version = "1.0"
isToolkitVersionString(version) == version = "1.0a1"

\* validateVersionString
validateVersionString(r) ==
  IF isValidVersionString(parsedJSON.version) THEN r
  ELSE IF parsedJSON.manifest_version < 3 /\ isToolkitVersionString(parsedJSON.version)
    THEN Result(addWarning(r.collector, "VERSION_FORMAT_DEPRECATED", ""), r.isValid)
    ELSE Result(addError(r.collector, "VERSION_FORMAT_INVALID", ""), FALSE)
(* ------------------------------ locales -------------------------------- *)
\* the paths under _locales/ a package may hold, in the order of
\* Object.keys(io.files)
LocaleFiles == <<"_locales/fr/messages.json", "_locales/de/",
                 "_locales/de/readme.txt", "_locales/de/messages.json",
                 "_locales/es/extra/messages.json", "_locales/fr/readme.txt">>

Locales == {"fr", "de", "es"}

\* matches[1] of localeDirRe; "" when the path is not under a locale
localeDir(f) ==
  CASE f \in {"_locales/fr/messages.json", "_locales/fr/readme.txt"} -> "fr"
    [] f \in {"_locales/de/", "_locales/de/readme.txt",
              "_locales/de/messages.json"} -> "de"
    [] f = "_locales/es/extra/messages.json" -> "es"
    [] OTHER -> ""

\* whether the path matches localeFileRe
isLocaleFile(f) ==
  f \in {"_locales/fr/messages.json", "_locales/de/messages.json",
         "_locales/es/extra/messages.json"}

\* path.join(LOCALES_DIRECTORY, locale, 'messages.json')
messagesPath(locale) ==
  CASE locale = "fr" -> "_locales/fr/messages.json"
    [] locale = "de" -> "_locales/de/messages.json"
    [] locale = "es" -> "_locales/es/messages.json"
    [] OTHER -> ""

\* path.join(LOCALES_DIRECTORY, locale)
localePath(locale) ==
  CASE locale = "fr" -> "_locales/fr"
    [] locale = "de" -> "_locales/de"
    [] locale = "es" -> "_locales/es"
    [] OTHER -> ""

includes(list, x) == \E i \in 1..Len(list) : list[i] = x

\* Object.keys(this.io.files), restricted to the paths under _locales/
fileList == SelectSeq(LocaleFiles, LAMBDA f : f \in io.files)

\* the loop of lines 676-686: the distinct locales, and the locale of each
\* messages file
RECURSIVE CollectLocales(_, _, _, _)
CollectLocales(list, i, locales, withMessages) ==
  IF i > Len(list) THEN [locales |-> locales, localesWithMessagesJson |-> withMessages]
  ELSE LET dir == localeDir(list[i]) IN
    CollectLocales(list, i + 1,
      IF dir # "" /\ ~includes(locales, dir) THEN Append(locales, dir) ELSE locales,
      IF dir # "" /\ isLocaleFile(list[i]) THEN Append(withMessages, dir)
                                           ELSE withMessages)

\* the loop of lines 689-697: one error per locale without a messages file
RECURSIVE LocaleErrors(_, _, _, _)
LocaleErrors(locales, withMessages, i, errors) ==
  IF i > Len(locales) THEN errors
  ELSE LocaleErrors(locales, withMessages, i + 1,
         IF ~includes(withMessages, locales[i])
           THEN Append(errors, Diag("error", "NO_MESSAGES_FILE_IN_LOCALES",
                                    localePath(locales[i])))
           ELSE errors)

\* _validate, lines 648-661
DefaultLocaleFile(r) ==
  IF parsedJSON.default_locale # ""
     /\ messagesPath(parsedJSON.default_locale) \notin io.files
    THEN Result(addError(r.collector, "NO_MESSAGES_FILE", ""), FALSE)
    ELSE r

\* the locale rule without the test of line 701: the per-locale errors are
\* added whether or not a default locale is declared
LocaleRuleAlways(r) ==
  LET found == CollectLocales(fileList, 1, <<>>, <<>>)
      errors == LocaleErrors(found.locales, found.localesWithMessagesJson, 1, <<>>)
  IN  IF Len(errors) > 0 THEN Result(r.collector \o errors, FALSE) ELSE r

\* _validate, lines 663-712
LocaleRule(r) ==
  LET found == CollectLocales(fileList, 1, <<>>, <<>>)
      errors == LocaleErrors(found.locales, found.localesWithMessagesJson, 1, <<>>)
  IN  IF parsedJSON.default_locale = ""
        THEN IF Len(found.localesWithMessagesJson) > 0
               THEN Result(addError(r.collector, "NO_DEFAULT_LOCALE", ""), FALSE)
               ELSE r
      ELSE IF Len(errors) > 0
        THEN Result(r.collector \o errors, FALSE)
        ELSE r

(* --------------------------- closing rules ----------------------------- *)
\* _validate, lines 714-724: developer.name and developer.url are promoted
PromoteDeveloper(m) ==
  IF m.developer.present
    THEN [m EXCEPT !.author = IF m.developer.name # "" THEN m.developer.name ELSE @,
                   !.homepage_url = IF m.developer.url # "" THEN m.developer.url ELSE @]
    ELSE m

\* whether the url includes one of RESTRICTED_HOMEPAGE_URLS
isRestrictedHomepage(url) == url = "https://addons.mozilla.org/x"

\* validateHomePageURL
validateHomePageURL(r, url) ==
  IF isRestrictedHomepage(url)
    THEN Result(addError(r.collector, "RESTRICTED_HOMEPAGE_URL", ""), FALSE)
    ELSE r

HomePage(r) ==
  IF parsedJSON.homepage_url # "" THEN validateHomePageURL(r, parsedJSON.homepage_url)
  ELSE r

\* the restrictedPermissions map: permission -> minimum version
restrictedPermissions == <<[permission |-> "proxy", minVersion |-> <<78, 0>>],
                           [permission |-> "nativemessaging", minVersion |-> <<91, 1, 0>>]>>

\* String(permission).toLowerCase()
lowerPermission(p) ==
  CASE p = "Proxy" -> "proxy"
    [] p = "nativeMessaging" -> "nativemessaging"
    [] OTHER -> p

Part(v, i) == IF i <= Len(v) THEN v[i] ELSE 0

\* mozCompare on dotted numeric versions: -1, 0 or 1; a version that is
\* not set (the string "undefined") sorts before every numeric version
RECURSIVE mozCompareFrom(_, _, _)
mozCompareFrom(a, b, i) ==
  IF i > Len(a) /\ i > Len(b) THEN 0
  ELSE IF Part(a, i) < Part(b, i) THEN -1
  ELSE IF Part(a, i) > Part(b, i) THEN 1
  ELSE mozCompareFrom(a, b, i + 1)

\* the characters of a version string, as numbers that sort like the
\* characters do: a digit is itself and the dot sorts before every digit
RECURSIVE Digits(_)
Digits(n) == IF n < 10 THEN <<n>> ELSE Append(Digits(n \div 10), n % 10)

RECURSIVE Characters(_, _)
Characters(v, i) ==
  IF i > Len(v) THEN <<>>
  ELSE Digits(v[i]) \o (IF i < Len(v) THEN <<-1>> ELSE <<>>) \o Characters(v, i + 1)

RECURSIVE StringCompare(_, _, _)
StringCompare(s, t, i) ==
  IF i > Len(s) /\ i > Len(t) THEN 0
  ELSE IF i > Len(s) THEN -1
  ELSE IF i > Len(t) THEN 1
  ELSE IF s[i] < t[i] THEN -1
  ELSE IF s[i] > t[i] THEN 1
  ELSE StringCompare(s, t, i + 1)

\* a comparison of the two version strings character by character
mozCompareLexicographic(a, b) ==
  IF a = <<>> THEN 1 ELSE StringCompare(Characters(a, 1), Characters(b, 1), 1)

mozCompare(a, b) == IF a = <<>> THEN -1 ELSE mozCompareFrom(a, b, 1)

\* getMetadata().firefoxMinVersion; <<>> when it is not set
firefoxMinVersion(m) ==
  IF m.applications.present /\ m.applications.gecko.present
    THEN m.applications.gecko.strict_min_version ELSE <<>>

\* the loop of validateRestrictedPermissions with the versions compared as strings
RECURSIVE RestrictedLoopLexicographic(_, _, _)
RestrictedLoopLexicographic(r, permissionsInManifest, k) ==
  IF k > Len(restrictedPermissions) THEN r
  ELSE LET e == restrictedPermissions[k]
           hit == /\ includes(permissionsInManifest, e.permission)
                  /\ mozCompareLexicographic(firefoxMinVersion(parsedJSON),
                                             e.minVersion) = -1
       IN  RestrictedLoopLexicographic(
             IF hit THEN Result(addError(r.collector, "RESTRICTED_PERMISSION",
                                         e.permission), FALSE)
                    ELSE r,
             permissionsInManifest, k + 1)

RECURSIVE RestrictedLoop(_, _, _)
RestrictedLoop(r, permissionsInManifest, k) ==
  IF k > Len(restrictedPermissions) THEN r
  ELSE LET e == restrictedPermissions[k]
           hit == /\ includes(permissionsInManifest, e.permission)
                  /\ mozCompare(firefoxMinVersion(parsedJSON), e.minVersion) = -1
       IN  RestrictedLoop(IF hit
                            THEN Result(addError(r.collector, "RESTRICTED_PERMISSION",
                                                 e.permission), FALSE)
                            ELSE r,
                          permissionsInManifest, k + 1)

\* validateRestrictedPermissions
validateRestrictedPermissions(r) ==
  LET permissionsInManifest ==
        [i \in 1..Len(parsedJSON.permissions) |->
           lowerPermission(parsedJSON.permissions[i])]
  IN  IF Len(permissionsInManifest) = 0 THEN r
      ELSE RestrictedLoop(r, permissionsInManifest, 1)

\* validateExtensionID
validateExtensionID(r) ==
  IF parsedJSON.manifest_version < 3 THEN r
  ELSE IF getAddonId(parsedJSON) = ""
    THEN Result(addError(r.collector, "EXTENSION_ID_REQUIRED", ""), FALSE)
    ELSE r

\* validateHiddenAddon
validateHiddenAddon(r) ==
  IF ~isPrivilegedAddon THEN r
  ELSE IF /\ parsedJSON.hidden
          /\ \/ parsedJSON.action
             \/ parsedJSON.browser_action.present
             \/ parsedJSON.page_action.present
    THEN Result(addError(r.collector, "HIDDEN_NO_ACTION", ""), FALSE)
    ELSE r
(* ------------------------------ the pass ------------------------------- *)
\* one rule of _validate that only adds diagnostics
Rule(from, to, R(_)) ==
  /\ Advance(from, to)
  /\ collector' = R(Result(collector, isValid)).collector
  /\ isValid' = R(Result(collector, isValid)).isValid
  /\ UNCHANGED <<parsedJSON, inputs, validated, batch, tasks, opened>>

\* one of the two places where _validate changes the manifest
Mutation(from, to, M(_)) ==
  /\ Advance(from, to)
  /\ parsedJSON' = M(parsedJSON)
  /\ UNCHANGED <<inputs, validated, collector, isValid, batch, tasks, opened>>

CspRule(r) == validateCspPolicy(r, parsedJSON.content_security_policy)
ContentScriptsRule(r) == ContentScripts(r, parsedJSON.content_scripts, 1)

\* _validate without the copy of browser_specific_settings
ValidateSettingsSkipped == Mutation("settings", "csp", LAMBDA m : m)

ValidateLegacyShape     == Rule("legacy", "settings", LegacyShape)
ValidateSettings        == Mutation("settings", "csp", CopySettings)
ValidateCsp             == Rule("csp", "unused", CspRule)
ValidateUnusedKeys      == Rule("unused", "background", UnusedKeys)
ValidateBackground      == Rule("background", "content_scripts", Background)
ValidateContentScripts  == Rule("content_scripts", "dictionaries", ContentScriptsRule)
ValidateDictionaries    == Rule("dictionaries", "update_url", Dictionaries)
ValidateUpdateUrl       == Rule("update_url", "strict_max_version", UpdateUrl)
ValidateStrictMax       == Rule("strict_max_version", "compat", StrictMaxVersion)
ValidateCompat          == Rule("compat", "version", Compatibility)
ValidateVersion         == Rule("version", "default_locale", validateVersionString)
ValidateDefaultLocale   == Rule("default_locale", "locales", DefaultLocaleFile)
ValidateLocales         == Rule("locales", "developer", LocaleRule)
ValidateDeveloper       == Mutation("developer", "homepage_url", PromoteDeveloper)
ValidateHomePage        == Rule("homepage_url", "restricted", HomePage)
ValidateRestricted      == Rule("restricted", "extension_id", validateRestrictedPermissions)
ValidateExtensionID     == Rule("extension_id", "hidden", validateExtensionID)
ValidateHidden          == Rule("hidden", "constructed", validateHiddenAddon)

\* _validate, from its first line to its last
Validate ==
  \/ ValidateSchema
  \/ ValidateLegacyShape
  \/ ValidateSettings
  \/ ValidateCsp
  \/ ValidateUnusedKeys
  \/ ValidateBackground
  \/ ValidateContentScripts
  \/ ValidateDictionaries
  \/ ValidateUpdateUrl
  \/ ValidateStrictMax
  \/ ValidateCompat
  \/ ValidateVersion
  \/ ValidateDefaultLocale
  \/ ValidateLocales
  \/ ValidateDeveloper
  \/ ValidateHomePage
  \/ ValidateRestricted
  \/ ValidateExtensionID
  \/ ValidateHidden

(* ------------------------------- assets -------------------------------- *)
\* parseInt(size, 10); 0 for NaN
parseInt(size) ==
  CASE size = "16" -> 16
    [] size = "32" -> 32
    [] size = "48" -> 48
    [] OTHER -> 0

Icon(size, path) == [size |-> size, path |-> path]

\* the [size, path] pairs of one action's default_icon; size "" is null
DefaultIcons(action) ==
  IF action.present /\ action.default_icon.kind # "none"
    THEN action.default_icon.entries ELSE <<>>

\* the dark and light icons of browser_action.theme_icons
RECURSIVE ThemeIcons(_, _)
ThemeIcons(list, k) ==
  IF k > Len(list) THEN <<>>
  ELSE (IF list[k].dark # "" THEN <<Icon(list[k].size, list[k].dark)>> ELSE <<>>)
       \o (IF list[k].light # "" THEN <<Icon(list[k].size, list[k].light)>> ELSE <<>>)
       \o ThemeIcons(list, k + 1)

\* validateIcons, lines 866-899: every icon the manifest declares
IconList(m) ==
  m.icons
  \o DefaultIcons(m.browser_action)
  \o DefaultIcons(m.page_action)
  \o DefaultIcons(m.sidebar_action)
  \o (IF m.browser_action.present THEN ThemeIcons(m.browser_action.theme_icons, 1)
                                  ELSE <<>>)

Task(kind, path, size, ext) ==
  [kind |-> kind, path |-> path, size |-> size, ext |-> ext,
   read |-> 0, done |-> FALSE]

\* validateIcons, lines 901-920: the loop over the icons. st holds the
\* collector, isValid, errorIcons and the tasks started.
\* The WRONG_ICON_EXTENSION message is one constant for every icon; the
\* target of the diagnostic records the path the warning was added for.
IconStep(st, icon) ==
  LET _path == normalizePath(icon.path) IN
    IF _path \notin io.files
      THEN IF ~includes(st.errorIcons, _path)
             THEN [st EXCEPT !.collector = addError(@, "MANIFEST_ICON_NOT_FOUND", _path),
                             !.isValid = FALSE,
                             !.errorIcons = Append(@, _path)]
             ELSE st
    ELSE IF getNormalizedExtension(_path) \notin IMAGE_FILE_EXTENSIONS
      THEN IF ~includes(st.errorIcons, _path)
             THEN [st EXCEPT !.collector = addWarning(@, "WRONG_ICON_EXTENSION", _path)]
             ELSE st
    ELSE [st EXCEPT !.started = Append(@, Task("icon", _path, icon.size, ""))]

RECURSIVE IconLoop(_, _, _)
IconLoop(st, icons, k) ==
  IF k > Len(icons) THEN st
  ELSE IconLoop(IconStep(st, icons[k]), icons, k + 1)

Paths(ts) == [i \in 1..Len(ts) |-> ts[i].path]

NoBatchRunning == batch.icons # "running" /\ batch.theme # "running"

\* validateIcons up to its return: the missing and wrong-extension
\* diagnostics are added and each validateIcon call has opened its stream
ValidateIcons ==
  /\ pc = "constructed"
  /\ batch.icons = "idle"
  /\ NoBatchRunning
  /\ LET st == IconLoop([collector |-> collector, isValid |-> isValid,
                          errorIcons |-> <<>>, started |-> <<>>],
                         IconList(parsedJSON), 1)
     IN /\ collector' = st.collector
        /\ isValid' = st.isValid
        /\ tasks' = tasks \o st.started
        /\ opened' = opened \o Paths(st.started)
  /\ batch' = [batch EXCEPT !.icons = "running"]
  /\ UNCHANGED <<parsedJSON, inputs, validated, pc, steps>>
\* the paths of theme.images, property by property (a string value is one path)
RECURSIVE ThemeImagePaths(_, _)
ThemeImagePaths(images, k) ==
  IF k > Len(images) THEN <<>>
  ELSE images[k].paths \o ThemeImagePaths(images, k + 1)

\* validateThemeImage without the return at line 937: a missing image is
\* reported and then opened all the same
ThemeImageStepNoReturn(st, imagePath) ==
  LET _path == normalizePath(imagePath)
      ext == getNormalizedExtension(imagePath)
      checked == validateFileExistsInPackage(Result(st.collector, st.isValid), _path,
                   normalizePath(_path), "MANIFEST_THEME_IMAGE_NOT_FOUND")
  IN  IF ext \notin IMAGE_FILE_EXTENSIONS \/ ext = "webp"
        THEN [st EXCEPT !.collector = addError(checked.collector,
                                               "MANIFEST_THEME_IMAGE_WRONG_EXT", _path),
                        !.isValid = FALSE]
      ELSE [st EXCEPT !.collector = checked.collector, !.isValid = checked.isValid,
                      !.started = Append(@, Task("theme", _path, "", ext))]

\* validateThemeImage up to its first await: the existence and extension
\* checks, then the stream is opened
ThemeImageStep(st, imagePath) ==
  LET _path == normalizePath(imagePath)
      ext == getNormalizedExtension(imagePath)
      checked == validateFileExistsInPackage(Result(st.collector, st.isValid), _path,
                   normalizePath(_path), "MANIFEST_THEME_IMAGE_NOT_FOUND")
  IN  IF ~fileExists(_path)
        THEN [st EXCEPT !.collector = checked.collector, !.isValid = checked.isValid]
      ELSE IF ext \notin IMAGE_FILE_EXTENSIONS \/ ext = "webp"
        THEN [st EXCEPT !.collector = addError(@, "MANIFEST_THEME_IMAGE_WRONG_EXT", _path),
                        !.isValid = FALSE]
      ELSE [st EXCEPT !.started = Append(@, Task("theme", _path, "", ext))]

RECURSIVE ThemeImageLoop(_, _, _)
ThemeImageLoop(st, paths, k) ==
  IF k > Len(paths) THEN st
  ELSE ThemeImageLoop(ThemeImageStep(st, paths[k]), paths, k + 1)

\* validateStaticThemeImages up to its return
ValidateStaticThemeImages ==
  /\ pc = "constructed"
  /\ batch.theme = "idle"
  /\ NoBatchRunning
  /\ LET paths == IF parsedJSON.theme.present
                    THEN ThemeImagePaths(parsedJSON.theme.images, 1) ELSE <<>>
         st == ThemeImageLoop([collector |-> collector, isValid |-> isValid,
                               started |-> <<>>], paths, 1)
     IN /\ collector' = st.collector
        /\ isValid' = st.isValid
        /\ tasks' = tasks \o st.started
        /\ opened' = opened \o Paths(st.started)
  /\ batch' = [batch EXCEPT !.theme = "running"]
  /\ UNCHANGED <<parsedJSON, inputs, validated, pc, steps>>

\* getImageMetadata's result for a decoded stream
ImageInfo(img) ==
  [width |-> img.width, height |-> img.height,
   mime |-> FILE_EXTENSIONS_TO_MIME(img.type)]

\* validateIcon with the mime test of line 833 left out: every icon that is
\* not square is an error
IconCheckedAnyMime(r, task, info) ==
  IF info.width # info.height
    THEN Result(addError(r.collector, "ICON_NOT_SQUARE", task.path), FALSE)
  ELSE IF /\ task.size # ""
          /\ info.mime # "image/svg+xml"
          /\ info.width # parseInt(task.size)
    THEN Result(addWarning(r.collector, "ICON_SIZE_INVALID", task.path), r.isValid)
  ELSE r

\* validateIcon, lines 832-851: the checks on a decoded icon
IconChecked(r, task, info) ==
  IF info.width # info.height
    THEN IF info.mime # "image/svg+xml"
           THEN Result(addError(r.collector, "ICON_NOT_SQUARE", task.path), FALSE)
           ELSE Result(addWarning(r.collector, "ICON_NOT_SQUARE", task.path), r.isValid)
  ELSE IF /\ task.size # ""
          /\ info.mime # "image/svg+xml"
          /\ info.width # parseInt(task.size)
    THEN Result(addWarning(r.collector, "ICON_SIZE_INVALID", task.path), r.isValid)
  ELSE r

\* a catch clause that treats a corrupt icon like a corrupt theme image
IconFailedInvalidates(r, task) ==
  Result(addWarning(r.collector, "CORRUPT_ICON_FILE", task.path), FALSE)

\* validateIcon, lines 852-862: the catch clause
IconFailed(r, task) ==
  Result(addWarning(r.collector, "CORRUPT_ICON_FILE", task.path), r.isValid)

\* validateThemeImage with the mime mismatch tested after, not instead of,
\* the wrong-mime test
ThemeImageCheckedNoElse(r, task, info) ==
  LET r1 == IF info.mime \notin STATIC_THEME_IMAGE_MIMES \/ info.mime = "image/webp"
              THEN Result(addError(r.collector, "MANIFEST_THEME_IMAGE_WRONG_MIME",
                                   task.path), FALSE)
              ELSE r
  IN  IF FILE_EXTENSIONS_TO_MIME(task.ext) # info.mime
        THEN Result(addWarning(r1.collector, "MANIFEST_THEME_IMAGE_MIME_MISMATCH",
                               task.path), r1.isValid)
        ELSE r1

\* validateThemeImage, lines 950-968: the checks on a decoded theme image
ThemeImageChecked(r, task, info) ==
  IF info.mime \notin STATIC_THEME_IMAGE_MIMES \/ info.mime = "image/webp"
    THEN Result(addError(r.collector, "MANIFEST_THEME_IMAGE_WRONG_MIME", task.path),
                FALSE)
  ELSE IF FILE_EXTENSIONS_TO_MIME(task.ext) # info.mime
    THEN Result(addWarning(r.collector, "MANIFEST_THEME_IMAGE_MIME_MISMATCH",
                           task.path), r.isValid)
  ELSE r

\* validateThemeImage, lines 969-978: the catch clause
ThemeImageFailed(r, task) ==
  Result(addError(r.collector, "MANIFEST_THEME_IMAGE_CORRUPTED", task.path), FALSE)

Decoded(r, task) ==
  IF task.kind = "icon" THEN IconChecked(r, task, ImageInfo(Content(task.path)))
  ELSE ThemeImageChecked(r, task, ImageInfo(Content(task.path)))

Failed(r, task) ==
  IF task.kind = "icon" THEN IconFailed(r, task) ELSE ThemeImageFailed(r, task)

\* the task ends: the diagnostics of r are in the collector
Finish(i, r) ==
  /\ collector' = r.collector
  /\ isValid' = r.isValid
  /\ tasks' = [tasks EXCEPT ![i].done = TRUE]

\* getStreamImageSize, lines 51-58: the stream yields one more chunk (or
\* throws) and the decoder is tried on what has been read
ReadChunk(i) ==
  /\ ~tasks[i].done
  /\ tasks[i].read < Content(tasks[i].path).chunks
  /\ LET img == Content(tasks[i].path)
         n == tasks[i].read + 1
         r == Result(collector, isValid)
     IN IF img.throwsAt = n THEN Finish(i, Failed(r, tasks[i]))
        ELSE IF img.okAt # 0 /\ n >= img.okAt THEN Finish(i, Decoded(r, tasks[i]))
        ELSE /\ tasks' = [tasks EXCEPT ![i].read = n]
             /\ UNCHANGED <<collector, isValid>>
  /\ UNCHANGED <<parsedJSON, inputs, validated, pc, steps, batch, opened>>

\* getStreamImageSize, line 60: the stream has ended and the decoder is
\* tried one last time on all of it
EndOfStream(i) ==
  /\ ~tasks[i].done
  /\ tasks[i].read = Content(tasks[i].path).chunks
  /\ LET img == Content(tasks[i].path)
         r == Result(collector, isValid)
     IN IF img.okAt # 0 /\ tasks[i].read >= img.okAt
          THEN Finish(i, Decoded(r, tasks[i]))
          ELSE Finish(i, Failed(r, tasks[i]))
  /\ UNCHANGED <<parsedJSON, inputs, validated, pc, steps, batch, opened>>

AllDone(kind) == \A i \in 1..Len(tasks) : tasks[i].kind = kind => tasks[i].done

\* a validateIcons whose promise is fulfilled without waiting for the tasks
ResolveIconsEarly ==
  /\ batch.icons = "running"
  /\ batch' = [batch EXCEPT !.icons = "resolved"]
  /\ UNCHANGED <<parsedJSON, inputs, validated, collector, isValid, pc, steps, tasks, opened>>

\* Promise.all(promises) of validateIcons is fulfilled
ResolveIcons ==
  /\ batch.icons = "running"
  /\ AllDone("icon")
  /\ batch' = [batch EXCEPT !.icons = "resolved"]
  /\ UNCHANGED <<parsedJSON, inputs, validated, collector, isValid, pc, steps, tasks, opened>>

\* Promise.all(promises) of validateStaticThemeImages is fulfilled
ResolveThemeImages ==
  /\ batch.theme = "running"
  /\ AllDone("theme")
  /\ batch' = [batch EXCEPT !.theme = "resolved"]
  /\ UNCHANGED <<parsedJSON, inputs, validated, collector, isValid, pc, steps, tasks, opened>>

DecodeChunk == \E i \in 1..Len(tasks) : ReadChunk(i)
DecodeEnd == \E i \in 1..Len(tasks) : EndOfStream(i)

Assets ==
  \/ ValidateIcons
  \/ ValidateStaticThemeImages
  \/ DecodeChunk
  \/ DecodeEnd
  \/ ResolveIcons
  \/ ResolveThemeImages
(* ------------------------------ inputs --------------------------------- *)
Start(at, m, files, opts, errors, valid) ==
  /\ parsedJSON = m
  /\ io = [files |-> files]
  /\ options = opts
  /\ schemaErrors = errors
  /\ flags = KindFlags(m)
  /\ collector = <<>>
  /\ isValid = valid
  /\ pc = at
  /\ steps = <<>>
  /\ batch = [icons |-> "idle", theme |-> "idle"]
  /\ tasks = <<>>
  /\ opened = <<>>
  /\ validated = <<>>

\* the directives of a policy, in the order the model writes them
DirectiveOrder == <<"img-src", "worker-src",
                    "Script-Src", "script-src", "default-src">>

\* the policy that declares the directives of f, each with the tokens f gives
PolicyOf(f) ==
  LET present == SelectSeq(DirectiveOrder, LAMBDA n : n \in DOMAIN f)
  IN  [i \in 1..Len(present) |-> [name |-> present[i], values |-> f[present[i]]]]

\* the names of at most MaxDirectives directives, no directive named twice
DirectiveSets ==
  {T \in SUBSET DirectiveNames :
     /\ Cardinality(T) <= MaxDirectives
     /\ ~{"Script-Src", "script-src"} \subseteq T}

CspString(policy) ==
  [kind |-> "string",
   entries |-> <<[key |-> "content_security_policy", policy |-> policy]>>]

InitCsp ==
  \E T \in DirectiveSets :
    \E f \in [T -> SeqsUpTo(CspTokens, MaxTokens)] :
      Start("csp",
            [BaseManifest EXCEPT !.content_security_policy = CspString(PolicyOf(f))],
            {}, BaseOptions, <<>>, TRUE)

SpecCsp == InitCsp /\ [][ValidateCsp]_vars
\* the entries the model draws for the icons map
IconEntries ==
  {Icon("16", "a.png"), Icon("32", "a.png"), Icon("16", "./a.png"),
   Icon("16", "wide.png"), Icon("32", "wide.png"), Icon("16", "wide.svg"),
   Icon("32", "wide.svg"), Icon("16", "bad.png"), Icon("32", "cut.png"),
   Icon("16", "note.txt"), Icon("32", "note.txt"), Icon("16", "gone.png"),
   Icon("32", "gone.png"), Icon("48", "big.png"), Icon("48", "bad.png")}

\* icons maps of at most MaxIcons entries: a map has each size once
IconMaps ==
  {icons \in SeqsUpTo(IconEntries, MaxIcons) :
     \A i, j \in 1..Len(icons) : i # j => icons[i].size # icons[j].size}

\* manifests whose actions declare icons
ActionManifests ==
  {[BaseManifest EXCEPT
      !.browser_action =
         [present |-> TRUE,
          default_icon |-> [kind |-> "string", entries |-> <<Icon("", "./a.png")>>],
          theme_icons |-> <<[size |-> "32", dark |-> "gone.png", light |-> "wide.png"]>>],
      !.icons = <<Icon("16", "a.png")>>],
   [BaseManifest EXCEPT
      !.page_action =
         [present |-> TRUE,
          default_icon |-> [kind |-> "map",
                            entries |-> <<Icon("16", "note.txt"), Icon("32", "big.png")>>],
          theme_icons |-> <<>>],
      !.sidebar_action =
         [present |-> TRUE,
          default_icon |-> [kind |-> "string", entries |-> <<Icon("", "note.txt")>>],
          theme_icons |-> <<>>],
      !.browser_action =
         [present |-> TRUE,
          default_icon |-> [kind |-> "none", entries |-> <<>>],
          theme_icons |-> <<[size |-> "16", dark |-> "gone.png", light |-> ""]>>],
      !.icons = <<Icon("16", "gone.png")>>]}

ThemePaths == {"a.png", "./a.png", "D.PNG", "gone.png", "pic.webp", "fake.png",
               "anim.png", "bad.png", "note.txt", "wide.svg"}

\* theme.images with the paths ps: the first as theme_frame, the others as
\* the additional_backgrounds array
ThemeOf(ps) ==
  [present |-> TRUE,
   images |-> IF ps = <<>> THEN <<>>
              ELSE <<[prop |-> "theme_frame", paths |-> <<Head(ps)>>],
                     [prop |-> "additional_backgrounds", paths |-> Tail(ps)]>>]

PackageChoices == {ImageFiles, ImageFiles \ {"a.png"}}

\* the manifests of the asset checks: many icons, or icons of the actions,
\* or many theme images
AssetManifests ==
  {[BaseManifest EXCEPT !.icons = icons] : icons \in IconMaps}
  \cup ActionManifests
  \cup {[BaseManifest EXCEPT !.theme = ThemeOf(ps), !.icons = icons] :
          ps \in SeqsUpTo(ThemePaths, MaxThemeImages),
          icons \in {<<>>, <<Icon("16", "bad.png")>>}}

\* the parser as its constructor leaves it, before the asset checks
InitAssets ==
  \E m \in AssetManifests, files \in PackageChoices, valid \in BOOLEAN :
    Start("constructed", m, files, BaseOptions, <<>>, valid)

SpecAssets == InitAssets /\ [][Assets]_vars

InitLocales ==
  \E files \in SUBSET Range(LocaleFiles), locale \in Locales \cup {""},
     valid \in BOOLEAN :
    Start("default_locale", [BaseManifest EXCEPT !.default_locale = locale],
          files, BaseOptions, <<>>, valid)

SpecLocales == InitLocales /\ [][ValidateDefaultLocale \/ ValidateLocales]_vars
\* the entries the model draws for the dictionaries map
DictionaryEntries ==
  {[locale |-> "fr", path |-> "fr.dic"], [locale |-> "de", path |-> "de.dic"],
   [locale |-> "es", path |-> "es.txt"], [locale |-> "it", path |-> "fr.dic"]}

\* dictionaries maps of at most MaxDictionaries entries: each locale once
DictionaryMaps ==
  {d \in SeqsUpTo(DictionaryEntries, MaxDictionaries) :
     \A i, j \in 1..Len(d) : i # j => d[i].locale # d[j].locale}

\* applications after the copy of browser_specific_settings
IdSettings ==
  {NoSettings, Settings("applications", NoGecko),
   Settings("applications", Gecko("", FALSE, <<>>, FALSE)),
   Settings("browser_specific_settings", Gecko("d@x", FALSE, <<>>, FALSE))}

\* the pass as it reaches the dictionaries rule
InitDictionaries ==
  \E d \in {[present |-> FALSE, entries |-> <<>>]}
             \cup {[present |-> TRUE, entries |-> e] : e \in DictionaryMaps},
     a \in IdSettings,
     files \in {{}, {"fr.dic", "fr.aff"}, {"fr.dic", "de.dic", "de.aff"}},
     valid \in BOOLEAN :
    Start("dictionaries",
          [BaseManifest EXCEPT !.dictionaries = d, !.applications = a],
          files, BaseOptions, <<>>, valid)

SpecDictionaries == InitDictionaries /\ [][ValidateDictionaries]_vars
\* permissions as a manifest may spell them
PermissionNames == {"tabs", "proxy", "Proxy", "nativeMessaging"}

\* strict_min_version values; <<>> is a manifest that declares none
MinVersions ==
  {<<>>, <<9>>, <<60>>, <<77, 9>>, <<78>>, <<78, 0>>, <<78, 0, 1>>, <<80>>,
   <<91, 1>>, <<91, 0, 5>>, <<100, 0>>}

\* the pass as it reaches validateRestrictedPermissions
InitRestricted ==
  \E ps \in SeqsUpTo(PermissionNames, MaxPermissions), min \in MinVersions,
     valid \in BOOLEAN :
    Start("restricted",
          [BaseManifest EXCEPT
             !.permissions = ps,
             !.applications = Settings("applications", Gecko("p@x", FALSE, min, FALSE))],
          {}, BaseOptions, <<>>, valid)

SpecRestricted == InitRestricted /\ [][ValidateRestricted]_vars
\* raw issues that reach every branch of errorLookup
SchemaIssues ==
  {Issue("anyOf", "/host_permissions/0", "string", "undefined"),
   Issue("type", "/host_permissions/0", "object", "undefined"),
   Issue("required", "/host_permissions/0", "undefined", "undefined"),
   Issue("min_manifest_version", "/host_permissions/0", "string", "undefined"),
   Issue("type", "/host_permissions", "object", "undefined"),
   Issue("type", "/host_permissions", "string", "undefined"),
   Issue("deprecated", "/host_permissions/0", "string", "undefined"),
   Issue("privileged", "/name", "string", "undefined"),
   Issue("privileged", "/name", "string", "empty"),
   Issue("privileged", "/name", "string", "some"),
   Issue("privileged", "/permissions/0", "string", "undefined"),
   Issue("validatePrivilegedPermissions", "/permissions", "string", "empty"),
   Issue("validatePrivilegedPermissions", "/permissions", "string", "some"),
   Issue("validatePrivilegedPermissions", "/permissions", "string", "undefined"),
   Issue("deprecated", "/theme/images/headerURL", "string", "undefined"),
   Issue("deprecated", "/old_key", "string", "undefined"),
   Issue("deprecated", "/older_key", "string", "undefined"),
   Issue("deprecated", "/name", "string", "undefined"),
   Issue("required", "/name", "undefined", "undefined"),
   Issue("type", "/permissions/0", "object", "undefined"),
   Issue("anyOf", "/permissions/0", "string", "undefined"),
   Issue("type", "/optional_permissions/0", "object", "undefined"),
   Issue("max_manifest_version", "/background", "undefined", "undefined"),
   Issue("min_manifest_version", "/applications", "object", "undefined"),
   Issue("anyOf", "/install_origins/0", "string", "undefined")}

\* background declarations: scripts, a page, a service worker
Backgrounds ==
  {NoBackground}
  \cup {[present |-> TRUE, scripts |-> s, page |-> p, service_worker |-> w] :
          s \in SeqsUpTo({"bg.js", "no.js"}, MaxScripts),
          p \in {"", "page.html", "nopage.html"},
          w \in {"", "sw.js", "nosw.js"}}

\* the pass as it reaches the background rule
InitBackground ==
  \E bg \in Backgrounds, mv \in {2, 3}, on \in BOOLEAN, valid \in BOOLEAN,
     files \in {{}, {"bg.js", "page.html", "sw.js"}} :
    Start("background",
          [BaseManifest EXCEPT !.background = bg, !.manifest_version = mv],
          files, [BaseOptions EXCEPT !.enableBackgroundServiceWorker = on],
          <<>>, valid)

SpecBackground == InitBackground /\ [][ValidateBackground]_vars
\* gecko settings with every combination of id, update_url,
\* strict_min_version and strict_max_version
GeckoChoices(ids) ==
  {Gecko(id, u, min, max) :
     id \in ids, u \in BOOLEAN, min \in {<<>>, <<60>>, <<80>>}, max \in BOOLEAN}

\* manifests that declare the proxy permission and gecko settings under
\* applications, under browser_specific_settings, or under both
KeyManifests ==
  {[BaseManifest EXCEPT !.manifest_version = mv, !.applications = a,
                        !.browser_specific_settings = b,
                        !.permissions = <<"proxy">>] :
     mv \in {2, 3},
     a \in {NoSettings}
           \cup {Settings("applications", g) : g \in GeckoChoices({"", "a@b"})},
     b \in {NoSettings, Settings("browser_specific_settings", NoGecko)}
           \cup {Settings("browser_specific_settings", g) :
                   g \in GeckoChoices({"", "x@y"})}}

InitSettings ==
  \E m \in KeyManifests : Start("schema", m, {}, BaseOptions, <<>>, TRUE)

SpecSettings == InitSettings /\ [][Validate]_vars
(* --------------------------- the whole pass ---------------------------- *)
\* raw issues of the kinds the schema validator reports most
CommonIssues ==
  {Issue("required", "/name", "undefined", "undefined"),
   Issue("anyOf", "/permissions/0", "string", "undefined"),
   Issue("type", "/permissions/0", "object", "undefined"),
   Issue("anyOf", "/host_permissions/0", "string", "undefined"),
   Issue("min_manifest_version", "/background", "undefined", "undefined"),
   Issue("privileged", "/name", "string", "undefined")}

OptionChoices ==
  {[BaseOptions EXCEPT !.privileged = p, !.isAlreadySigned = s] : p, s \in BOOLEAN}

\* manifests with every combination of the four kind keys
KindManifests ==
  {[BaseManifest EXCEPT !.manifest_version = mv,
                        !.theme = [present |-> t, images |-> <<>>],
                        !.langpack_id = l,
                        !.dictionaries = [present |-> d, entries |-> <<>>],
                        !.site_permissions = s] :
     mv \in {2, 3}, t, l, d, s \in BOOLEAN}

\* the pass as it starts, for a manifest the schema accepts or rejects
InitKinds ==
  \E m \in KindManifests,
     errors \in SeqsUpTo({Issue("required", "/name", "undefined", "undefined")}, 1),
     opts \in OptionChoices :
    Start("schema", m, {}, opts, errors, TRUE)

SpecKinds == InitKinds /\ [][Validate]_vars

\* the pass as it starts, for a manifest the schema rejects or accepts
InitSchema ==
  \E errors \in SeqsUpTo(SchemaIssues, MaxIssues), mv \in {2, 3},
     opts \in OptionChoices :
    Start("schema", [BaseManifest EXCEPT !.manifest_version = mv],
          {}, opts, errors, TRUE)

SpecSchema == InitSchema /\ [][ValidateSchema]_vars

ScriptFiles == {"bg.js", "sw.js", "cs.js", "fr.dic", "fr.aff"}

Packages == {{}, ImageFiles \cup ScriptFiles,
             ImageFiles \cup ScriptFiles
               \cup {"_locales/fr/messages.json", "_locales/de/"}}

LegacySettings == Settings("applications", Gecko("a@b", TRUE, <<60>>, TRUE))
NewSettings == Settings("browser_specific_settings", Gecko("x@y", FALSE, <<50, 0>>, FALSE))

\* manifests that differ in their gecko settings, developer, author and policy
SettingsManifests ==
  {[BaseManifest EXCEPT !.manifest_version = mv, !.applications = a,
                        !.browser_specific_settings = b, !.developer = d,
                        !.author = au, !.content_security_policy = c] :
     mv \in {2, 3},
     a \in {NoSettings, LegacySettings},
     b \in {NoSettings, NewSettings,
             Settings("browser_specific_settings", NoGecko)},
     d \in {[present |-> FALSE, name |-> "", url |-> ""],
             [present |-> TRUE, name |-> "Dev", url |-> ""],
             [present |-> TRUE, name |-> "", url |-> "https://addons.mozilla.org/x"]},
     au \in {"", "Me"},
     c \in {[kind |-> "absent", entries |-> <<>>],
             [kind |-> "map",
              entries |-> <<[key |-> "content_security_policy.extension_pages",
                             policy |-> <<[name |-> "script-src",
                                           values |-> <<"'self'", "'unsafe-eval'">>]>>],
                            [key |-> "content_security_policy.sandbox",
                             policy |-> <<[name |-> "default-src",
                                           values |-> <<"*">>]>>]>>]}}

\* manifests that each declare one more key than the base manifest
RuleManifests ==
  {[BaseManifest EXCEPT !.manifest_version = mv,
                        !.background = [present |-> TRUE, scripts |-> <<"bg.js", "no.js">>,
                                        page |-> "", service_worker |-> "sw.js"]] :
     mv \in {2, 3}}
  \cup
  {[BaseManifest EXCEPT !.background = [present |-> TRUE, scripts |-> <<>>,
                                        page |-> "page.html", service_worker |-> ""],
                        !.update_url = TRUE, !.granted_host_permissions = TRUE],
   [BaseManifest EXCEPT !.content_scripts =
      <<[matches |-> <<"*://example.com/*", "*://both.blocked.example/*">>,
         js |-> <<"cs.js">>, css |-> <<"cs.css">>]>>],
   [BaseManifest EXCEPT !.content_scripts =
      <<[matches |-> <<"*://example.com/*">>, js |-> <<"cs.js">>, css |-> <<>>]>>],
   [BaseManifest EXCEPT !.dictionaries = [present |-> TRUE, entries |-> <<>>]],
   [BaseManifest EXCEPT !.dictionaries =
      [present |-> TRUE, entries |-> <<[locale |-> "fr", path |-> "fr.dic"]>>],
      !.applications = Settings("applications", Gecko("d@x", FALSE, <<>>, TRUE))],
   [BaseManifest EXCEPT !.dictionaries =
      [present |-> TRUE, entries |-> <<[locale |-> "fr", path |-> "fr.dic"],
                                       [locale |-> "de", path |-> "de.dic"]>>],
      !.applications = Settings("applications", Gecko("d@x", FALSE, <<>>, FALSE))],
   [BaseManifest EXCEPT !.langpack_id = TRUE,
      !.applications = Settings("applications", Gecko("l@x", FALSE, <<>>, TRUE))],
   [BaseManifest EXCEPT !.version = "1.0a1"],
   [BaseManifest EXCEPT !.version = "1.0a1", !.manifest_version = 3],
   [BaseManifest EXCEPT !.version = "bad"],
   [BaseManifest EXCEPT !.default_locale = "fr"],
   [BaseManifest EXCEPT !.default_locale = "de"],
   [BaseManifest EXCEPT !.homepage_url = "https://example.org"],
   [BaseManifest EXCEPT !.homepage_url = "https://addons.mozilla.org/x"],
   [BaseManifest EXCEPT !.permissions = <<"tabs", "Proxy">>,
      !.applications = Settings("applications", Gecko("p@x", FALSE, <<60>>, FALSE))],
   [BaseManifest EXCEPT !.permissions = <<"proxy">>,
      !.applications = Settings("applications", Gecko("p@x", FALSE, <<100, 0>>, FALSE))],
   [BaseManifest EXCEPT !.permissions = <<"proxy">>],
   [BaseManifest EXCEPT !.hidden = TRUE, !.action = TRUE],
   [BaseManifest EXCEPT !.hidden = TRUE],
   [BaseManifest EXCEPT !.site_permissions = TRUE],
   [BaseManifest EXCEPT !.theme = ThemeOf(<<"a.png", "bad.png", "fake.png">>)],
   [BaseManifest EXCEPT !.icons = <<Icon("16", "wide.png"), Icon("16", "wide.svg"),
                                    Icon("16", "note.txt")>>]}
  \cup ActionManifests

Init ==
  \/ \E errors \in SeqsUpTo(CommonIssues, MaxIssues), mv \in {2, 3},
        opts \in OptionChoices :
       Start("schema", [BaseManifest EXCEPT !.manifest_version = mv],
             {}, opts, errors, TRUE)
  \/ \E m \in SettingsManifests, selfHosted \in BOOLEAN :
       Start("schema", m, {}, [BaseOptions EXCEPT !.selfHosted = selfHosted],
             <<>>, TRUE)
  \/ \E m \in RuleManifests, files \in Packages, on \in BOOLEAN :
       Start("schema", m, files,
             [BaseOptions EXCEPT !.enableBackgroundServiceWorker = on,
                                 !.privileged = on],
             <<>>, TRUE)

Next == Validate \/ Assets

Spec == Init /\ [][Next]_vars
(* ======================= properties of the parser ====================== *)
HasError(c) == \E i \in 1..Len(c) : c[i].sev = "error"
HasCode(c, code) == \E i \in 1..Len(c) : c[i].code = code
Count(c, d) == Cardinality({i \in 1..Len(c) : c[i] = d})
CountCode(c, code) == Cardinality({i \in 1..Len(c) : c[i].code = code})
SameBag(c, d) == \A x \in Range(c) \cup Range(d) : Count(c, x) = Count(d, x)

\* _validate has returned and both asset batches have been awaited
PassComplete ==
  pc = "constructed" /\ batch.icons = "resolved" /\ batch.theme = "resolved"

(* C1, as stated: after a full pass validity is false if and only if an
   error-severity diagnostic was added or a bad-permission diagnostic was
   emitted; a pass whose schema issues were all warnings or suppressed and
   that added no error ends valid. *)
C1_ValidityFromDiagnostics ==
  PassComplete =>
    (~isValid <=> (HasError(collector) \/ HasCode(collector, "MANIFEST_BAD_PERMISSION")))

(* C1, amended: after a full pass validity is false if and only if the
   schema validator rejected the manifest (it reported at least one raw
   issue, however that issue was then reported) or an error-severity
   diagnostic was added. *)
C1_ValidityFromSchemaAndErrors ==
  PassComplete => (~isValid <=> (~validate \/ HasError(collector)))

\* a complete pass whose schema issues were all reported as warnings
C1_Witness ==
  /\ PassComplete
  /\ ~isValid
  /\ collector # <<>>
  /\ ~HasError(collector)

\* a mutation that the manifest still needs
SettingsPending == CopySettings(parsedJSON) # parsedJSON
DeveloperPending == PromoteDeveloper(parsedJSON) # parsedJSON

(* C2, as stated: both manifest mutations have completed before the CSP
   analysis starts, before the compatibility walk starts and before any
   asset task starts. *)
C2_MutationsBeforeAnalyses ==
  pc \in {"csp", "compat", "constructed"} => ~SettingsPending /\ ~DeveloperPending

(* C2, amended: the copy of browser_specific_settings into applications
   has completed before the CSP analysis, the compatibility walk and every
   asset task start; the promotion of developer.name/url has completed
   before the home page check and before any asset task starts, but it
   runs only after the CSP analysis and the compatibility walk. *)
C2_SettingsBeforeAnalyses ==
  /\ pc \in {"csp", "compat", "constructed"} => ~SettingsPending
  /\ pc \in {"homepage_url", "constructed"} => ~DeveloperPending
  /\ tasks # <<>> => ~SettingsPending /\ ~DeveloperPending
  /\ pc \in {"csp", "compat"} => ~includes(steps, "developer")
  /\ includes(steps, "developer") => includes(steps, "csp") /\ includes(steps, "compat")

\* the compatibility walk is about to start, the CSP analysis has run, the
\* settings have been copied and the developer is still to be promoted
C2_Witness ==
  /\ pc = "compat"
  /\ includes(steps, "csp")
  /\ parsedJSON.applications.key = "browser_specific_settings"
  /\ DeveloperPending
(* ----------------------- properties of the assets ---------------------- *)
TasksOf(kind) == SelectSeq(tasks, LAMBDA t : t.kind = kind)

\* the icon entries validateIcons decodes: in the package, allowed extension
EligibleIcon(e) ==
  /\ normalizePath(e.path) \in io.files
  /\ getNormalizedExtension(normalizePath(e.path)) \in IMAGE_FILE_EXTENSIONS

EligibleThemeImage(p) ==
  /\ normalizePath(p) \in io.files
  /\ getNormalizedExtension(p) \in IMAGE_FILE_EXTENSIONS \ {"webp"}

NormalizedPaths(ps) == [i \in 1..Len(ps) |-> normalizePath(ps[i])]

EligibleIconPaths ==
  LET el == SelectSeq(IconList(parsedJSON), EligibleIcon)
  IN  [i \in 1..Len(el) |-> normalizePath(el[i].path)]

DeclaredThemeImages ==
  IF parsedJSON.theme.present THEN ThemeImagePaths(parsedJSON.theme.images, 1) ELSE <<>>

EligibleThemePaths == NormalizedPaths(SelectSeq(DeclaredThemeImages, EligibleThemeImage))

\* a stream on which the decoder never succeeds: it fails on every chunk
\* and on the final attempt, or the stream throws first
Undecodable(p) ==
  LET img == Content(p) IN
    \/ img.okAt = 0
    \/ img.okAt > img.chunks
    \/ img.throwsAt # 0 /\ img.throwsAt <= img.okAt

\* one task run from its start to its end with nothing in between
RunToEnd(r, task) ==
  IF Undecodable(task.path) THEN Failed(r, task) ELSE Decoded(r, task)

RECURSIVE RunAll(_, _, _)
RunAll(r, ts, k) ==
  IF k > Len(ts) THEN r ELSE RunAll(RunToEnd(r, ts[k]), ts, k + 1)

\* both batches run one task after the other, from an empty collector
SequentialRun ==
  LET i == IconLoop([collector |-> <<>>, isValid |-> TRUE, errorIcons |-> <<>>,
                     started |-> <<>>], IconList(parsedJSON), 1)
      ri == RunAll(Result(i.collector, i.isValid), i.started, 1)
      t == ThemeImageLoop([collector |-> ri.collector, isValid |-> ri.isValid,
                           started |-> <<>>], DeclaredThemeImages, 1)
  IN  RunAll(Result(t.collector, t.isValid), t.started, 1)

AddedDiagnostics == SubSeq(collector', Len(collector) + 1, Len(collector'))

Finishes(i) == ~tasks[i].done /\ tasks'[i].done

BothResolved == batch.icons = "resolved" /\ batch.theme = "resolved"

C3_State ==
  /\ batch.icons # "idle" => Paths(TasksOf("icon")) = EligibleIconPaths
  /\ batch.theme # "idle" => Paths(TasksOf("theme")) = EligibleThemePaths
  /\ batch.icons = "resolved" => AllDone("icon")
  /\ batch.theme = "resolved" => AllDone("theme")
  /\ BothResolved => /\ SameBag(collector, SequentialRun.collector)
                     /\ isValid => SequentialRun.isValid

C3_Step == isValid' = (isValid /\ ~HasError(AddedDiagnostics))

(* C3: validateIcons and validateStaticThemeImages start one task per
   eligible entry, their promise resolves only when every started task has
   finished, and whatever the interleaving the final diagnostics are those
   of a sequential run (as a bag) and validity is the validity before,
   unless an error was added. *)
C3_BatchesDeterministic == []C3_State /\ [][C3_Step]_vars

\* two icon tasks have finished in the opposite order of their start
C3_Witness ==
  /\ BothResolved
  /\ Len(tasks) = 2
  /\ tasks[1].path = "wide.png" /\ tasks[2].path = "wide.svg"
  /\ collector = <<Diag("warning", "ICON_NOT_SQUARE", "wide.svg"),
                   Diag("error", "ICON_NOT_SQUARE", "wide.png")>>

C4_State ==
  /\ Len(opened) = Len(tasks)
  /\ \A i \in 1..Len(tasks) :
       /\ tasks[i].read <= Content(tasks[i].path).chunks
       /\ ~tasks[i].done => ENABLED (ReadChunk(i) \/ EndOfStream(i))
  /\ batch.icons = "running" /\ AllDone("icon") => ENABLED ResolveIcons
  /\ batch.theme = "running" /\ AllDone("theme") => ENABLED ResolveThemeImages

C4_Step ==
  \A i \in 1..Len(tasks) :
    Finishes(i) /\ Undecodable(tasks[i].path) =>
      IF tasks[i].kind = "icon"
        THEN /\ AddedDiagnostics = <<Diag("warning", "CORRUPT_ICON_FILE", tasks[i].path)>>
             /\ isValid' = isValid
        ELSE /\ AddedDiagnostics =
                  <<Diag("error", "MANIFEST_THEME_IMAGE_CORRUPTED", tasks[i].path)>>
             /\ isValid' = FALSE

(* C4: a task whose stream never decodes (or throws) ends with exactly one
   diagnostic, a corrupt-file warning that leaves validity as it was for an
   icon and a corrupted-image error that sets validity false for a theme
   image; its stream is opened once, and every other task can still run
   to its end and the batch resolve. *)
C4_DecodeFailureContained == []C4_State /\ [][C4_Step]_vars

\* a corrupt icon and a corrupt theme image, both batches resolved
C4_Witness ==
  /\ BothResolved
  /\ HasCode(collector, "CORRUPT_ICON_FILE")
  /\ HasCode(collector, "MANIFEST_THEME_IMAGE_CORRUPTED")
  /\ Len(tasks) = 2

NotSquare(p) == ~Undecodable(p) /\ Content(p).width # Content(p).height

C7_Step ==
  \A i \in 1..Len(tasks) :
    Finishes(i) /\ tasks[i].kind = "icon" /\ NotSquare(tasks[i].path) =>
      IF FILE_EXTENSIONS_TO_MIME(Content(tasks[i].path).type) # "image/svg+xml"
        THEN /\ AddedDiagnostics = <<Diag("error", "ICON_NOT_SQUARE", tasks[i].path)>>
             /\ isValid' = FALSE
        ELSE /\ AddedDiagnostics = <<Diag("warning", "ICON_NOT_SQUARE", tasks[i].path)>>
             /\ isValid' = isValid

C7_State ==
  batch.icons = "resolved" =>
    \A k \in 1..Len(EligibleIconPaths) :
      NotSquare(EligibleIconPaths[k]) =>
        CountCode(SelectSeq(collector, LAMBDA d : d.target = EligibleIconPaths[k]),
                  "ICON_NOT_SQUARE")
          = Cardinality({j \in 1..Len(EligibleIconPaths) :
                           EligibleIconPaths[j] = EligibleIconPaths[k]})

(* C7: the check of an icon that is in the package, has an allowed
   extension and decodes to a width different from its height adds exactly
   one diagnostic: an icon-not-square error, with validity false, when the
   decoded mime is not image/svg+xml; an icon-not-square warning, with
   validity unchanged, when it is. *)
C7_NotSquareIcon == []C7_State /\ [][C7_Step]_vars

\* a vector icon that is not square has been checked and validity is kept
C7_Witness ==
  /\ batch.icons = "resolved"
  /\ collector = <<Diag("warning", "ICON_NOT_SQUARE", "wide.svg")>>
  /\ isValid

(* C8, as stated: once both batches have completed the collector never
   holds two diagnostics with the same code for the same asset path. *)
C8_NoDuplicateAssetDiagnostics ==
  BothResolved =>
    \A i, j \in 1..Len(collector) :
      i # j => ~(/\ collector[i].code = collector[j].code
                 /\ collector[i].target = collector[j].target)

C9_State ==
  /\ \A k \in 1..Len(opened) :
       opened[k] \in io.files /\ normalizePath(opened[k]) = opened[k]
  /\ batch.icons # "idle" =>
       \A k \in 1..Len(IconList(parsedJSON)) :
         LET p == normalizePath(IconList(parsedJSON)[k].path) IN
           p \notin io.files =>
             /\ ~includes(opened, p)
             /\ Count(collector, Diag("error", "MANIFEST_ICON_NOT_FOUND", p)) >= 1
  /\ batch.theme # "idle" =>
       \A k \in 1..Len(DeclaredThemeImages) :
         LET p == normalizePath(DeclaredThemeImages[k]) IN
           p \notin io.files =>
             /\ ~includes(opened, p)
             /\ Count(collector, Diag("error", "MANIFEST_THEME_IMAGE_NOT_FOUND", p)) >= 1

(* C9: every stream the asset checks open is for a key of the package
   file map; a declared path that is not in the package is reported as
   missing and never opened; the file map never changes. *)
C9_OnlyPackagedFilesOpened == []C9_State /\ [][io' = io]_vars

\* one icon was opened and decoded, another one was missing
C9_Witness ==
  /\ BothResolved
  /\ includes(opened, "a.png")
  /\ HasCode(collector, "MANIFEST_ICON_NOT_FOUND")
  /\ ~includes(opened, "gone.png")
(* ------------------------ properties of the CSP ------------------------ *)
\* the policy string analysed, as the manifest declares it
Policy == parsedJSON.content_security_policy.entries[1].policy

CspAnalysed ==
  pc = "unused" /\ parsedJSON.content_security_policy.kind = "string"

Declares(name) == \E i \in 1..Len(Policy) : ToLowerCase(Policy[i].name) = name

HasTokenIn(name, P(_)) ==
  \E i \in 1..Len(Policy) :
    /\ ToLowerCase(Policy[i].name) = name
    /\ \E k \in 1..Len(Policy[i].values) : P(Policy[i].values[k])

NonSafe(value) == value \notin SafeTokens
IsEval(value) == value = "'unsafe-eval'"

EvalAnywhere ==
  \E i \in 1..Len(Policy) : \E k \in 1..Len(Policy[i].values) :
    IsEval(Policy[i].values[k])

EvalInCandidate == \E c \in Range(candidates) : HasTokenIn(c, IsEval)

OnlyDefaultAndScriptSrc ==
  \A c \in Range(candidates) \ {"default-src", "script-src"} : ~Declares(c)

PolicyIs(p) == Policy = p

(* C5: for a policy whose only candidate directives are default-src and
   script-src and that has no 'unsafe-eval' token, the insecure-CSP warning
   is emitted iff script-src has a non-safe token, or script-src is absent
   and default-src is missing or has a non-safe token; "script-src 'self'"
   gives no warning, "default-src *" gives it, and
   "default-src *; script-src 'self'" gives none. *)
C5_InsecureCspWarning ==
  CspAnalysed =>
    /\ OnlyDefaultAndScriptSrc /\ ~EvalAnywhere =>
         (HasCode(collector, "MANIFEST_CSP") <=>
            \/ HasTokenIn("script-src", NonSafe)
            \/ /\ ~Declares("script-src")
               /\ ~Declares("default-src") \/ HasTokenIn("default-src", NonSafe))
    /\ PolicyIs(<<[name |-> "script-src", values |-> <<"'self'">>]>>)
         => ~HasCode(collector, "MANIFEST_CSP")
    /\ PolicyIs(<<[name |-> "default-src", values |-> <<"*">>]>>)
         => HasCode(collector, "MANIFEST_CSP")
    /\ PolicyIs(<<[name |-> "script-src", values |-> <<"'self'">>],
                  [name |-> "default-src", values |-> <<"*">>]>>)
         => ~HasCode(collector, "MANIFEST_CSP")

\* a broad default-src overridden by a safe script-src: no warning at all
C5_Witness ==
  /\ CspAnalysed
  /\ HasTokenIn("default-src", NonSafe)
  /\ Declares("script-src") /\ ~HasTokenIn("script-src", NonSafe)
  /\ collector = <<>>

(* C6, as stated: a policy with 'unsafe-eval' in any of its directives
   gets the eval warning. *)
C6_EvalInAnyDirective ==
  CspAnalysed /\ EvalAnywhere => HasCode(collector, "MANIFEST_CSP_UNSAFE_EVAL")

(* C6, amended: the eval warning is emitted exactly when 'unsafe-eval' is a
   token of one of the candidate directives (default-src, script-src,
   script-src-elem, script-src-attr, worker-src), whatever the other
   tokens and directives are, and it is emitted once. *)
C6_EvalInCandidateDirective ==
  CspAnalysed =>
    /\ EvalInCandidate <=> HasCode(collector, "MANIFEST_CSP_UNSAFE_EVAL")
    /\ CountCode(collector, "MANIFEST_CSP_UNSAFE_EVAL") <= 1

\* 'unsafe-eval' next to another token in worker-src, and warned about
C6_Witness ==
  /\ CspAnalysed
  /\ HasTokenIn("worker-src", IsEval)
  /\ HasTokenIn("worker-src", LAMBDA v : ~IsEval(v))
  /\ Declares("default-src")
  /\ HasCode(collector, "MANIFEST_CSP_UNSAFE_EVAL")

(* ---------------------- properties of the locales ---------------------- *)
PresentLocales == {l \in Locales : \E f \in io.files : localeDir(f) = l}

\* a messages.json is listed under the directory of the locale
HasMessagesFile(l) == \E f \in io.files : localeDir(f) = l /\ isLocaleFile(f)

MissingMessages(l) == Diag("error", "NO_MESSAGES_FILE_IN_LOCALES", localePath(l))

C10_Step ==
  pc = "locales" /\ pc' = "developer" =>
    /\ SubSeq(collector', 1, Len(collector)) = collector
    /\ IF parsedJSON.default_locale = ""
         THEN AddedDiagnostics =
                IF \E l \in PresentLocales : HasMessagesFile(l)
                  THEN <<Diag("error", "NO_DEFAULT_LOCALE", "")>> ELSE <<>>
         ELSE /\ \A k \in 1..Len(AddedDiagnostics) :
                   \E l \in PresentLocales : AddedDiagnostics[k] = MissingMessages(l)
              /\ \A l \in PresentLocales \ {parsedJSON.default_locale} :
                   Count(AddedDiagnostics, MissingMessages(l))
                     = IF HasMessagesFile(l) THEN 0 ELSE 1
              /\ \A l \in PresentLocales :
                   HasMessagesFile(l) => Count(AddedDiagnostics, MissingMessages(l)) = 0
    /\ isValid' = (isValid /\ AddedDiagnostics = <<>>)

(* C10: without a default_locale the locale rule adds exactly one
   no-default-locale error if some locale directory has a messages file and
   nothing otherwise, never a per-locale error; with a default_locale it
   adds exactly one missing-messages error for each present locale, other
   than the default, that lacks the file and none for a locale that has
   it; validity is false whenever the rule added an error. *)
C10_LocaleRule == [][C10_Step]_vars

\* fr has its messages file, de has none, fr is the default: one error, for de
C10_Witness ==
  /\ pc = "developer"
  /\ io.files = {"_locales/fr/messages.json", "_locales/de/"}
  /\ parsedJSON.default_locale = "fr"
  /\ collector = <<MissingMessages("de")>>
  /\ ~isValid

(* -------------------- properties of the structural rules --------------- *)
\* the rule that takes the pass from one position to the next has run
RuleRuns(from, to) == pc = from /\ pc' = to

\* validity after a rule: as before, unless the rule added an error
ValidityFollows == isValid' = (isValid /\ ~HasError(AddedDiagnostics))

\* no id can be read from applications.gecko.id
NoAddonId ==
  \/ ~parsedJSON.applications.present
  \/ ~parsedJSON.applications.gecko.present
  \/ parsedJSON.applications.gecko.id = ""

C11_Step ==
  RuleRuns("dictionaries", "update_url") =>
    LET n == Len(parsedJSON.dictionaries.entries) IN
      /\ ValidityFollows
      /\ SubSeq(collector', 1, Len(collector)) = collector
      /\ ~parsedJSON.dictionaries.present => AddedDiagnostics = <<>>
      /\ parsedJSON.dictionaries.present =>
           /\ CountCode(AddedDiagnostics, "MANIFEST_EMPTY_DICTS")
                = (IF n = 0 THEN 1 ELSE 0)
           /\ CountCode(AddedDiagnostics, "MANIFEST_MULTIPLE_DICTS")
                = (IF n >= 2 THEN 1 ELSE 0)
           /\ CountCode(AddedDiagnostics, "MANIFEST_DICT_MISSING_ID")
                = (IF NoAddonId THEN 1 ELSE 0)
           /\ n # 1 \/ NoAddonId => ~isValid'

(* C11: a dictionaries map with no entry adds exactly one empty-dictionaries
   error, one with two or more entries exactly one multiple-dictionaries
   error, validity is false in both cases, and one entry adds neither;
   independently an id that cannot be read from applications.gecko.id adds
   one missing-id error and sets validity false. *)
C11_DictionaryCount == [][C11_Step]_vars

\* two dictionaries and an id: one multiple-dictionaries error, no other count error
C11_Witness ==
  /\ pc = "update_url"
  /\ Len(parsedJSON.dictionaries.entries) = 2
  /\ ~NoAddonId
  /\ CountCode(collector, "MANIFEST_MULTIPLE_DICTS") = 1
  /\ ~HasCode(collector, "MANIFEST_DICT_MISSING_ID")
  /\ ~isValid

\* the first version is lower than the second, component by component
VersionLower(a, b) ==
  \E i \in 1..3 :
    /\ Part(a, i) < Part(b, i)
    /\ \A j \in 1..(i - 1) : Part(a, j) = Part(b, j)

DeclaresPermission(name) ==
  \E i \in 1..Len(parsedJSON.permissions) :
    lowerPermission(parsedJSON.permissions[i]) = name

DeclaredMinVersion == parsedJSON.applications.gecko.strict_min_version

RestrictedError(name) == Diag("error", "RESTRICTED_PERMISSION", name)

C12_Step ==
  RuleRuns("restricted", "extension_id") =>
    /\ ValidityFollows
    /\ SubSeq(collector', 1, Len(collector)) = collector
    /\ \A k \in 1..Len(AddedDiagnostics) :
         \E e \in Range(restrictedPermissions) :
           AddedDiagnostics[k] = RestrictedError(e.permission)
    /\ \A e \in Range(restrictedPermissions) :
         /\ ~DeclaresPermission(e.permission) =>
              Count(AddedDiagnostics, RestrictedError(e.permission)) = 0
         /\ DeclaresPermission(e.permission) /\ DeclaredMinVersion # <<>> =>
              IF VersionLower(DeclaredMinVersion, e.minVersion)
                THEN /\ Count(AddedDiagnostics, RestrictedError(e.permission)) = 1
                     /\ ~isValid'
                ELSE Count(AddedDiagnostics, RestrictedError(e.permission)) = 0
    /\ DeclaredMinVersion = <<100, 0>> =>
         Count(AddedDiagnostics, RestrictedError("proxy")) = 0

(* C12: for each permission of the restricted table that the permissions
   array holds (compared in lower case), a declared minimum version lower
   than the required one, component by component, adds exactly one
   restricted-permission error and sets validity false, an equal or higher
   one adds nothing; the comparison is not lexicographic: a declared 100.0
   satisfies a required 78.0. *)
C12_RestrictedPermissions == [][C12_Step]_vars

\* proxy is declared with 100.0, which is lower than 78.0 only as a string
C12_Witness ==
  /\ pc = "extension_id"
  /\ DeclaresPermission("proxy")
  /\ DeclaredMinVersion = <<100, 0>>
  /\ collector = <<>>
  /\ isValid

(* ---------------------- properties of the schema issues ---------------- *)
HostCodes == {"MANIFEST_HOST_PERMISSIONS", "MANIFEST_BAD_HOST_PERMISSION"}

\* the issues that errorLookup classifies as bad-host-permission: a value
\* under /host_permissions that is not a string
BadHostIssue(e) ==
  /\ e.instancePath \in {"/host_permissions", "/host_permissions/0"}
  /\ e.keyword \notin {"required", "deprecated", "min_manifest_version",
                       "max_manifest_version"}
  /\ e.data = "object"

\* the issues that errorLookup classifies as host-permissions: an entry of
\* the host_permissions array, whatever template was chosen first
HostPermissionsIssue(e) ==
  /\ e.instancePath = "/host_permissions/0"
  /\ e.keyword \notin {"min_manifest_version", "max_manifest_version"}
  /\ ~BadHostIssue(e)

HostIssue(e) == BadHostIssue(e) \/ HostPermissionsIssue(e)

\* the issues of the manifest that get a diagnostic, in their order
ReportedIssues ==
  SelectSeq(schemaErrors,
            LAMBDA e : ~(parsedJSON.manifest_version = 2 /\ HostIssue(e)))

C13_Step ==
  RuleRuns("schema", "legacy") =>
    /\ SubSeq(collector', 1, Len(collector)) = collector
    /\ Len(AddedDiagnostics) = Len(ReportedIssues)
    /\ \A k \in 1..Len(ReportedIssues) :
         LET e == ReportedIssues[k]
             d == AddedDiagnostics[k]
         IN  /\ d.target = e.instancePath
             /\ HostPermissionsIssue(e) <=> d.code = "MANIFEST_HOST_PERMISSIONS"
             /\ BadHostIssue(e) <=> d.code = "MANIFEST_BAD_HOST_PERMISSION"
             /\ HostPermissionsIssue(e) => d.sev = "warning"
             /\ BadHostIssue(e) => d.sev = "error"
    /\ parsedJSON.manifest_version = 2 =>
         \A k \in 1..Len(AddedDiagnostics) : AddedDiagnostics[k].code \notin HostCodes

(* C13: a raw issue classified as host-permissions or bad-host-permission
   gets no diagnostic when manifest_version is 2 and exactly one when it
   is 3, a warning for the host-permissions code; the suppression looks at
   the code chosen last, after the refinement for array paths. *)
C13_HostPermissionsSuppressed == [][C13_Step]_vars

\* manifest_version 2: the host-permissions issue is dropped, the other reported
C13_Witness ==
  /\ pc = "legacy"
  /\ parsedJSON.manifest_version = 2
  /\ Len(schemaErrors) = 2
  /\ schemaErrors[1] = Issue("required", "/host_permissions/0", "undefined", "undefined")
  /\ Len(collector) = 1
  /\ collector[1].code = "MANIFEST_FIELD_REQUIRED"

\* the error of a background file that the package does not hold
BackgroundMissing(p) == Diag("error", "MANIFEST_BACKGROUND_FILE_NOT_FOUND", p)

\* the declared scripts and page that the package does not hold, in order
MissingBackgroundFiles ==
  LET bg == parsedJSON.background
      declared == bg.scripts \o (IF bg.page # "" THEN <<bg.page>> ELSE <<>>)
      missing == SelectSeq(declared, LAMBDA p : p \notin io.files)
  IN  [i \in 1..Len(missing) |-> BackgroundMissing(missing[i])]

\* what the service worker part of the rule has to add
ServiceWorkerDiagnostics ==
  LET w == parsedJSON.background.service_worker IN
    IF w = "" THEN <<>>
    ELSE IF ~options.enableBackgroundServiceWorker
      THEN <<Diag("error", "MANIFEST_FIELD_UNSUPPORTED", "/background")>>
    ELSE IF parsedJSON.manifest_version >= 3 /\ w \notin io.files
      THEN <<BackgroundMissing(w)>>
    ELSE <<>>

C14_Step ==
  RuleRuns("background", "content_scripts") =>
    /\ ValidityFollows
    /\ SubSeq(collector', 1, Len(collector)) = collector
    /\ AddedDiagnostics =
         IF parsedJSON.background.present
           THEN MissingBackgroundFiles \o ServiceWorkerDiagnostics ELSE <<>>
    /\ parsedJSON.background.service_worker # ""
         /\ ~options.enableBackgroundServiceWorker => ~isValid'

(* C14: a declared background.service_worker without the feature flag adds
   exactly one field-unsupported error for /background, sets validity
   false and is not looked up in the package; with the flag and
   manifest_version 3 or more the file must be in the package (one error
   and validity false when it is not); with the flag and manifest_version
   below 3 nothing is added for it. The declared scripts and page are
   looked up in every case. *)
C14_BackgroundServiceWorker == [][C14_Step]_vars

\* no flag, a service worker that is not in the package, a missing script:
\* the script is reported missing, the worker only as unsupported
C14_Witness ==
  /\ pc = "content_scripts"
  /\ ~options.enableBackgroundServiceWorker
  /\ parsedJSON.background.service_worker = "nosw.js"
  /\ collector = <<BackgroundMissing("no.js"),
                   Diag("error", "MANIFEST_FIELD_UNSUPPORTED", "/background")>>
  /\ ~isValid

(* --------------------- properties of the theme images ------------------ *)
ThemeCodes ==
  {"MANIFEST_THEME_IMAGE_NOT_FOUND", "MANIFEST_THEME_IMAGE_WRONG_EXT",
   "MANIFEST_THEME_IMAGE_CORRUPTED", "MANIFEST_THEME_IMAGE_WRONG_MIME",
   "MANIFEST_THEME_IMAGE_MIME_MISMATCH"}

ThemeDiagnostics == SelectSeq(collector, LAMBDA d : d.code \in ThemeCodes)

\* the one outcome of a declared theme image path, the first check that
\* fails deciding it, when allowed are the extensions that are accepted
ThemeOutcome(p, allowed) ==
  LET np == normalizePath(p)
      ext == getNormalizedExtension(p)
      mime == FILE_EXTENSIONS_TO_MIME(Content(np).type)
  IN  IF np \notin io.files
        THEN <<Diag("error", "MANIFEST_THEME_IMAGE_NOT_FOUND", np)>>
      ELSE IF ext \notin allowed
        THEN <<Diag("error", "MANIFEST_THEME_IMAGE_WRONG_EXT", np)>>
      ELSE IF Undecodable(np)
        THEN <<Diag("error", "MANIFEST_THEME_IMAGE_CORRUPTED", np)>>
      ELSE IF mime \notin STATIC_THEME_IMAGE_MIMES \ {"image/webp"}
        THEN <<Diag("error", "MANIFEST_THEME_IMAGE_WRONG_MIME", np)>>
      ELSE IF FILE_EXTENSIONS_TO_MIME(ext) # mime
        THEN <<Diag("warning", "MANIFEST_THEME_IMAGE_MIME_MISMATCH", np)>>
      ELSE <<>>

RECURSIVE ThemeOutcomes(_, _, _)
ThemeOutcomes(ps, k, allowed) ==
  IF k > Len(ps) THEN <<>>
  ELSE ThemeOutcome(ps[k], allowed) \o ThemeOutcomes(ps, k + 1, allowed)

\* the paths that are decoded: in the package, with an accepted extension
ThemeDecoded(allowed) ==
  NormalizedPaths(SelectSeq(DeclaredThemeImages,
    LAMBDA p : normalizePath(p) \in io.files
               /\ getNormalizedExtension(p) \in allowed))

ThemeChecksStopAtFirst(allowed) ==
  /\ batch.theme # "idle" => Paths(TasksOf("theme")) = ThemeDecoded(allowed)
  /\ batch.theme = "resolved" =>
       /\ SameBag(ThemeDiagnostics, ThemeOutcomes(DeclaredThemeImages, 1, allowed))
       /\ HasError(ThemeDiagnostics) => ~isValid

(* C15, as stated: the extensions accepted for a theme image are the raster
   ones, the vector extension and webp excluded. *)
C15_RasterExtensionsOnly ==
  ThemeChecksStopAtFirst(IMAGE_FILE_EXTENSIONS \ {"svg", "webp"})

C15_State == ThemeChecksStopAtFirst(IMAGE_FILE_EXTENSIONS \ {"webp"})

(* C15, amended: for each declared theme image path the checks stop at the
   first failure, so a path yields at most one diagnostic: missing file,
   then extension outside the image extensions or webp (svg is accepted
   and decoded), then decode failure, then decoded mime outside the
   allow-list or webp, then extension that does not match the decoded mime
   (a warning that leaves validity unchanged); every error sets validity
   false. *)
C15_ThemeImageChecks == []C15_State /\ [][ValidityFollows]_vars

\* a theme image with the vector extension is decoded and accepted
C15_Witness ==
  /\ batch.theme = "resolved"
  /\ DeclaredThemeImages = <<"wide.svg">>
  /\ includes(opened, "wide.svg")
  /\ ThemeDiagnostics = <<>>

(* ------------------ properties of the gecko settings ------------------- *)
\* the gecko settings the rules have to read: those of
\* browser_specific_settings when it has them, else those of applications
EffectiveGecko ==
  IF /\ parsedJSON.browser_specific_settings.present
     /\ parsedJSON.browser_specific_settings.gecko.present
    THEN parsedJSON.browser_specific_settings.gecko
  ELSE IF parsedJSON.applications.present THEN parsedJSON.applications.gecko
  ELSE NoGecko

Adds(from, to, diagnostics) ==
  RuleRuns(from, to) =>
    AddedDiagnostics = diagnostics /\ SubSeq(collector', 1, Len(collector)) = collector

C16_Step ==
  /\ Adds("legacy", "settings",
          IF parsedJSON.manifest_version >= 3 THEN <<>>
          ELSE IF parsedJSON.applications.present
                  /\ parsedJSON.browser_specific_settings.present
            THEN <<Diag("warning", "IGNORED_APPLICATIONS_PROPERTY", "/applications")>>
          ELSE IF parsedJSON.applications.present
            THEN <<Diag("warning", "APPLICATIONS_DEPRECATED", "/applications")>>
          ELSE <<>>)
  /\ Adds("update_url", "strict_max_version",
          IF EffectiveGecko.present /\ EffectiveGecko.update_url
            THEN <<Diag("error", "MANIFEST_UPDATE_URL", "")>> ELSE <<>>)
  /\ Adds("strict_max_version", "compat",
          IF EffectiveGecko.present /\ EffectiveGecko.strict_max_version
            THEN <<Diag("notice", "STRICT_MAX_VERSION", "")>> ELSE <<>>)
  /\ Adds("restricted", "extension_id",
          IF ~EffectiveGecko.present
             \/ EffectiveGecko.strict_min_version = <<>>
             \/ VersionLower(EffectiveGecko.strict_min_version, <<78, 0>>)
            THEN <<RestrictedError("proxy")>> ELSE <<>>)
  /\ Adds("extension_id", "hidden",
          IF parsedJSON.manifest_version >= 3
             /\ (~EffectiveGecko.present \/ EffectiveGecko.id = "")
            THEN <<Diag("error", "EXTENSION_ID_REQUIRED", "")>> ELSE <<>>)

(* C16: below manifest_version 3, applications together with
   browser_specific_settings adds exactly the legacy-ignored warning and
   applications alone exactly the applications-deprecated warning; from
   manifest_version 3 neither is added. Afterwards, when
   browser_specific_settings.gecko is present, the update URL, the
   strict_max_version, the extension id and the minimum version rules read
   its values, whichever key the manifest used. *)
C16_LegacyKeys == [][C16_Step]_vars

\* both keys were declared, and the rules have read browser_specific_settings:
\* no update URL error, a minimum version of 80 that satisfies proxy
C16_Witness ==
  /\ pc = "constructed"
  /\ HasCode(collector, "IGNORED_APPLICATIONS_PROPERTY")
  /\ ~HasCode(collector, "APPLICATIONS_DEPRECATED")
  /\ parsedJSON.applications = parsedJSON.browser_specific_settings
  /\ ~EffectiveGecko.update_url
  /\ EffectiveGecko.strict_min_version = <<80>>
  /\ collector[1] = Diag("warning", "IGNORED_APPLICATIONS_PROPERTY", "/applications")
  /\ ~HasCode(collector, "MANIFEST_UPDATE_URL")
  /\ ~HasCode(collector, "RESTRICTED_PERMISSION")

(* ----------------------------- addon kinds ----------------------------- *)
KindKeys == <<"theme", "langpack_id", "dictionaries", "site_permissions">>

FlagOf(key) ==
  CASE key = "theme" -> flags.isStaticTheme
    [] key = "langpack_id" -> flags.isLanguagePack
    [] key = "dictionaries" -> flags.isDictionary
    [] key = "site_permissions" -> flags.isSitePermission

HasKindKey(key) ==
  CASE key = "theme" -> parsedJSON.theme.present
    [] key = "langpack_id" -> parsedJSON.langpack_id
    [] key = "dictionaries" -> parsedJSON.dictionaries.present
    [] key = "site_permissions" -> parsedJSON.site_permissions

ValidatorOf(key) ==
  CASE key = "theme" -> "validateStaticTheme"
    [] key = "langpack_id" -> "validateLangPack"
    [] key = "dictionaries" -> "validateDictionary"
    [] key = "site_permissions" -> "validateSitePermission"

\* the positions of the kind keys whose flag is true
KindsInEffect == {i \in 1..Len(KindKeys) : FlagOf(KindKeys[i])}

\* the positions of the kind keys the manifest has
KindKeysPresent == {i \in 1..Len(KindKeys) : HasKindKey(KindKeys[i])}

First(S) == CHOOSE i \in S : \A j \in S : i <= j

ExpectedValidator ==
  IF KindKeysPresent = {} THEN "validateAddon"
  ELSE ValidatorOf(KindKeys[First(KindKeysPresent)])

C17_State ==
  /\ Cardinality(KindsInEffect) <= 1
  /\ KindsInEffect = IF KindKeysPresent = {} THEN {} ELSE {First(KindKeysPresent)}
  /\ validated = IF pc = "schema" THEN <<>> ELSE <<ExpectedValidator>>

(* C17: at most one of the four kind flags is true, the flag that is true
   is the one of the first key present in the order theme, langpack_id,
   dictionaries, site_permissions (none when no key is present), the flags
   never change during the pass, and the schema validator of that kind
   (validateAddon when no flag is true) is invoked exactly once, by the
   first step of the pass. *)
C17_OneKind == []C17_State /\ [][flags' = flags]_vars

\* a manifest with the keys langpack_id, dictionaries and site_permissions
\* has been through the whole pass as a language pack
C17_Witness ==
  /\ pc = "constructed"
  /\ KindKeysPresent = {2, 3, 4}
  /\ flags.isLanguagePack
  /\ validated = <<"validateLangPack">>

(* ------------------- 'unsafe-eval' and the CSP warning ----------------- *)
\* the policy without the k-th token of its i-th directive
WithoutToken(policy, i, k) ==
  [policy EXCEPT ![i].values =
     SubSeq(@, 1, k - 1) \o SubSeq(@, k + 1, Len(@))]

\* the places of the policy where a candidate directive has 'unsafe-eval'
EvalPlaces ==
  {<<i, k>> \in (1..Len(Policy)) \X (1..MaxTokens) :
     /\ ToLowerCase(Policy[i].name) \in Range(candidates)
     /\ k <= Len(Policy[i].values)
     /\ IsEval(Policy[i].values[k])}

WarnsInsecure(policy) ==
  HasCode(validateCspPolicyString(policy, "content_security_policy"), "MANIFEST_CSP")

(* C18, as stated: when the policy has 'unsafe-eval' in a candidate
   directive and the insecure-CSP warning is emitted for it, the warning
   is also emitted for the policy without that token. *)
C18_EvalNeverAddsInsecureWarning ==
  CspAnalysed =>
    \A place \in EvalPlaces :
      HasCode(collector, "MANIFEST_CSP")
        => WarnsInsecure(WithoutToken(Policy, place[1], place[2]))

\* a token that is neither a safe keyword nor 'unsafe-eval'
Broad(value) == NonSafe(value) /\ ~IsEval(value)

\* script-src at directive i of the policy would override default-src
\* if it were not for its k-th token
OverrideLost(i, k) ==
  /\ ToLowerCase(Policy[i].name) = "script-src"
  /\ every(WithoutToken(Policy, i, k)[i].values, isSecureCspValue)
  /\ ~Declares("default-src") \/ HasTokenIn("default-src", Broad)

(* C18, amended: an 'unsafe-eval' token of a candidate directive adds the
   insecure-CSP warning to a policy that has none without the token only
   when the directive is script-src, its other tokens are all safe keywords
   and default-src is missing or has a broad token; in that case the token
   keeps script-src from overriding default-src and the warning is emitted
   next to the eval warning. *)
C18_EvalAddsWarningOnlyByLostOverride ==
  CspAnalysed =>
    \A place \in EvalPlaces :
      /\ HasCode(collector, "MANIFEST_CSP_UNSAFE_EVAL")
      /\ HasCode(collector, "MANIFEST_CSP")
           /\ ~WarnsInsecure(WithoutToken(Policy, place[1], place[2]))
           => OverrideLost(place[1], place[2])
      /\ OverrideLost(place[1], place[2]) => HasCode(collector, "MANIFEST_CSP")

\* "script-src 'self' 'unsafe-eval'" has both warnings, "script-src 'self'"
\* has none
C18_Witness ==
  /\ CspAnalysed
  /\ PolicyIs(<<[name |-> "script-src", values |-> <<"'self'", "'unsafe-eval'">>]>>)
  /\ EvalPlaces = {<<1, 2>>}
  /\ HasCode(collector, "MANIFEST_CSP_UNSAFE_EVAL")
  /\ HasCode(collector, "MANIFEST_CSP")
  /\ ~WarnsInsecure(WithoutToken(Policy, 1, 2))

(* ------------------- the bare privileged keyword ----------------------- *)
\* an issue that reaches the branch of the privileged keyword
BarePrivileged(e) ==
  e.keyword = "privileged" /\ e.data \in {"undefined", "string"}

\* the path of the issue names an element of a permissions or
\* install_origins array
ArrayElement(e) ==
  PermsMatch(e.instancePath) # "" \/ InstallOriginsMatch(e.instancePath) # ""

\* the diagnostic of the k-th reported issue
DiagnosticOf(k) == AddedDiagnostics[k]

C19_Stated ==
  RuleRuns("schema", "legacy") =>
    \A k \in 1..Len(ReportedIssues) :
      LET e == ReportedIssues[k] IN
        BarePrivileged(e) /\ ~ArrayElement(e) /\ options.privileged =>
          /\ e.privilegedPermissions = "empty"
               => DiagnosticOf(k).code = "PRIVILEGED_FEATURES_REQUIRED"
          /\ e.privilegedPermissions = "some"
               => DiagnosticOf(k).code = "MOZILLA_ADDONS_PERMISSION_REQUIRED"

(* C19, as stated: the bare privileged keyword gets the three-way branch
   of privileged permissions: for a privileged addon the
   privileged-features-required message when the issue lists no privileged
   permission, the mozillaAddons permission-required message when it lists
   some. *)
C19_ThreeWayBranch == [][C19_Stated]_vars

C19_Step ==
  RuleRuns("schema", "legacy") =>
    /\ Len(AddedDiagnostics) = Len(ReportedIssues)
    /\ \A k \in 1..Len(ReportedIssues) :
         LET e == ReportedIssues[k] IN
           BarePrivileged(e) =>
             /\ DiagnosticOf(k).target = e.instancePath
             /\ ~ArrayElement(e) =>
                  DiagnosticOf(k).code =
                    IF options.privileged
                      THEN "MOZILLA_ADDONS_PERMISSION_REQUIRED"
                      ELSE "MANIFEST_FIELD_PRIVILEGED"
             /\ ~ArrayElement(e) =>
                  DiagnosticOf(k).sev =
                    IF ~options.privileged /\ options.isAlreadySigned
                      THEN "warning" ELSE "error"
             /\ PermsMatch(e.instancePath) = "PERMISSIONS" =>
                  /\ DiagnosticOf(k).code = "MANIFEST_PERMISSIONS"
                  /\ DiagnosticOf(k).sev = "warning"

(* C19, amended: for an issue with the bare privileged keyword matched by
   no earlier branch and whose path is not an element of a permissions or
   install_origins array, the branch is two-way: a privileged addon gets
   the mozillaAddons permission-required message whatever privileged
   permissions the issue lists, a non-privileged addon gets the
   field-privileged message, an error unless the addon is already signed
   (then a warning); at the path of a permissions element the diagnostic is
   the permissions warning instead. *)
C19_TwoWayBranch == [][C19_Step]_vars

\* a privileged addon, a privileged field, no privileged permission listed
C19_Witness ==
  /\ pc = "legacy"
  /\ options.privileged
  /\ schemaErrors = <<Issue("privileged", "/name", "string", "empty")>>
  /\ collector = <<Diag("error", "MOZILLA_ADDONS_PERMISSION_REQUIRED", "/name")>>

(* ----------------------- the deprecated keyword ------------------------ *)
Registered(instancePath) == DEPRECATED_MANIFEST_PROPERTIES(instancePath) # ""

RegisteredTemplate(instancePath) ==
  MessageTemplate(DEPRECATED_MANIFEST_PROPERTIES(instancePath))

C20_Stated ==
  RuleRuns("schema", "legacy") =>
    /\ Len(AddedDiagnostics) = Len(ReportedIssues)
    /\ \A k \in 1..Len(ReportedIssues) :
         LET e == ReportedIssues[k]
             path == e.instancePath
         IN  e.keyword = "deprecated" /\ ~ArrayElement(e) =>
               IF Registered(path)
                 THEN RegisteredTemplate(path).code # "" =>
                        /\ DiagnosticOf(k).code = RegisteredTemplate(path).code
                        /\ DeprecatedText(path).message = "template"
                        /\ DeprecatedText(path).description =
                             IF RegisteredTemplate(path).description
                               THEN "template" ELSE "raw"
                 ELSE DiagnosticOf(k).code = "MANIFEST_FIELD_DEPRECATED"

(* C20, as stated: a deprecated issue at a path with a registered
   replacement template gets the code and the message of that template,
   with the description of the template when it has one and the raw schema
   message otherwise; a deprecated issue at a path with no registered
   replacement gets the generic field-deprecated template, not the
   invalid-JSON one. *)
C20_DeprecatedTemplates == [][C20_Stated]_vars
====
